---- MODULE Spec2Model ----
(***************************************************************************)
(* Model of the trajectory prediction application (trajectory_app):        *)
(* the trajectory synchronizer of the data manager, the application        *)
(* object (construction, single-scene and batch prediction, GIF            *)
(* generation), the inference engine and the renderers of the visualizer.  *)
(*                                                                         *)
(* Times are integers counted in ticks.  Interpolated pose components are  *)
(* exact rationals [num, den] with den > 0.  The loops that accumulate     *)
(* floats are also modelled in binary64 arithmetic (SpecTimeline).         *)
(***************************************************************************)
EXTENDS Integers, Sequences, FiniteSets, TLC

VARIABLES
    pc,               \* which operation runs and where it stands
    trajectories,     \* synchronizer input: source name -> raw trajectory
    time_horizon,     \* synchronizer input: target horizon (ticks)
    dt,               \* synchronizer input: target sample interval (ticks)
    synchronized,     \* synchronizer output: source name -> resampled trajectory
    environ,          \* os.environ: variable name -> value
    config_arg,       \* the argument of TrajectoryPredictionApp(config)
    config,           \* self.config
    inference_engine, \* self.inference_engine
    data_manager,     \* self.data_manager
    visualizer,       \* self.visualizer
    load_model_calls, \* number of load_model() calls so far
    predicted,        \* whether predict_trajectory() has been called
    frame,            \* the locals of the operation that is running
    outcome           \* what the last operation returned or raised

sync_vars == <<trajectories, time_horizon, dt, synchronized>>

app_vars == <<environ, config_arg, config, inference_engine, data_manager,
              visualizer, load_model_calls, predicted, frame, outcome>>

vars == <<pc, sync_vars, app_vars>>

-----------------------------------------------------------------------------
(* Bounds of the model *)

MaxLen == 3         \* samples per raw trajectory
MaxT == 3           \* latest native timestamp (ticks)
MaxDt == 2          \* largest sample interval (ticks)

MaxHorizonTicks == MaxT + 1

MaxBatch == 2       \* scene tokens given to one batch call

-----------------------------------------------------------------------------
(* Helpers *)

Range(s) == {s[i] : i \in DOMAIN s}

Min2(a, b) == IF a <= b THEN a ELSE b

Max2(a, b) == IF a >= b THEN a ELSE b

\* the increasing sequence of the elements of a finite set of integers
RECURSIVE SortedSeq(_)
SortedSeq(S) ==
    IF S = {} THEN <<>>
    ELSE LET m == CHOOSE a \in S : \A b \in S : a <= b
         IN <<m>> \o SortedSeq(S \ {m})

Rat(n, d) == [num |-> n, den |-> d]

RatEq(a, b) == a.num * b.den = b.num * a.den

\* order of two rationals with positive denominators
RatLe(a, b) == a.num * b.den <= b.num * a.den

-----------------------------------------------------------------------------
(* Floating-point numbers: Python floats are IEEE 754 binary64. A float x   *)
(* with 0 <= x < 16 that is 0 or at least 1/16 is held exactly, as the      *)
(* whole number x * 2^56 in two limbs of 30 bits; sums, differences and     *)
(* quotients are rounded to 53 significant bits, to nearest, ties to even.  *)

MantissaBits == 53

FractionBits == 56

LimbBits == 30

RECURSIVE Pow2(_)
Pow2(n) == IF n = 0 THEN 1 ELSE 2 * Pow2(n - 1)

Limb == Pow2(LimbBits)

Float(hi, lo) == [hi |-> hi, lo |-> lo]

FloatZero == Float(0, 0)

FloatLe(a, b) == a.hi < b.hi \/ (a.hi = b.hi /\ a.lo <= b.lo)

FloatLt(a, b) == a.hi < b.hi \/ (a.hi = b.hi /\ a.lo < b.lo)

RECURSIVE BitLength(_)
BitLength(n) == IF n = 0 THEN 0 ELSE 1 + BitLength(n \div 2)

FloatBits(x) == IF x.hi > 0 THEN LimbBits + BitLength(x.hi) ELSE BitLength(x.lo)

\* x plus the fraction num/den of a unit, rounded to 53 significant bits
RoundToFloat(x, num, den) ==
    LET d == Max2(FloatBits(x) - MantissaBits, 0)
        r == x.lo % Pow2(d)
        twice == 2 * (r * den + num)
        whole == Pow2(d) * den
        odd == (x.lo \div Pow2(d)) % 2 = 1
        up == twice > whole \/ (twice = whole /\ odd)
        lo == x.lo - r + (IF up THEN Pow2(d) ELSE 0)
    IN Float(x.hi + lo \div Limb, lo % Limb)

\* a + b
FloatAdd(a, b) ==
    RoundToFloat(Float(a.hi + b.hi + (a.lo + b.lo) \div Limb, (a.lo + b.lo) % Limb),
                 0, 1)

\* a - b for a >= b
FloatSub(a, b) ==
    RoundToFloat(IF a.lo >= b.lo
                 THEN Float(a.hi - b.hi, a.lo - b.lo)
                 ELSE Float(a.hi - b.hi - 1, a.lo + Limb - b.lo),
                 0, 1)

FloatAbsDiff(a, b) == IF FloatLe(b, a) THEN FloatSub(a, b) ELSE FloatSub(b, a)

\* long division, one hexadecimal digit of the quotient at a time
DigitBits == 4

Radix == Pow2(DigitBits)

RECURSIVE Quotient(_, _, _, _)
Quotient(q, rem, den, digits) ==
    IF digits = 0 THEN [q |-> q, rem |-> rem]
    ELSE Quotient(Float(Radix * q.hi + q.lo \div (Limb \div Radix),
                        Radix * (q.lo % (Limb \div Radix)) + (Radix * rem) \div den),
                  (Radix * rem) % den, den, digits - 1)

\* n / den for whole numbers n >= 0 and den > 0: the float nearest to the
\* quotient, as the division of two floats with these values gives it
FloatDiv(n, den) ==
    LET qr == Quotient(Float(0, n \div den), n % den, den,
                       FractionBits \div DigitBits)
    IN RoundToFloat(qr.q, qr.rem, den)

-----------------------------------------------------------------------------
(* Trajectories: an ordered sequence of poses (x, y, heading), each tagged *)
(* with a timestamp                                                        *)

SourceNames == {"ground_truth", "pdm_closed", "prediction"}

\* two families of poses, neither linear in t, so that a resampled value
\* tells which native samples it was computed from
PoseShapes == {"gt_like", "pred_like"}

PoseAt(shape, t) ==
    IF shape = "gt_like"
    THEN [x |-> t * t, y |-> 0 - t, heading |-> 3 - t * t]
    ELSE [x |-> 2 * t + 1, y |-> t * t * t, heading |-> IF t % 2 = 0 THEN 1 ELSE 0 - 2]

Sample(shape, t) ==
    [t |-> t, x |-> PoseAt(shape, t).x, y |-> PoseAt(shape, t).y,
     heading |-> PoseAt(shape, t).heading]

\* the trajectory of a shape sampled at the timestamps of a set
TrajectoryOf(shape, T) ==
    LET ts == SortedSeq(T) IN [i \in 1..Len(ts) |-> Sample(shape, ts[i])]

RawTrajectories ==
    {TrajectoryOf(shape, T) :
        shape \in PoseShapes,
        T \in {S \in SUBSET (0..MaxT) : Cardinality(S) <= MaxLen}}

\* section 8 of the specification: A at t = 0, 1, 2, 3 s and B at
\* t = 0, 0.5, 1, 1.5, 2 s, horizon 2 s, dt 0.5 s; one tick is 0.5 s
ExampleA == TrajectoryOf("gt_like", {0, 2, 4, 6})

ExampleB == TrajectoryOf("pred_like", {0, 1, 2, 3, 4})

ExampleTrajectories == [n \in {"ground_truth", "prediction"} |->
                            IF n = "ground_truth" THEN ExampleA ELSE ExampleB]

ExampleHorizon == 4

ExampleDt == 1

-----------------------------------------------------------------------------
(* Trajectory Synchronizer (section 4.1)                                   *)

\* mutant: the last grid point is the horizon itself (a linspace-style grid)
TargetGrid_EndpointIncluded(horizon, step) ==
    [k \in 1..((horizon \div step) + 1) |->
        IF k = (horizon \div step) + 1 THEN horizon ELSE (k - 1) * step]

\* the target grid 0, dt, 2*dt, ... clipped to the horizon
TargetGrid(horizon, step) ==
    [k \in 1..((horizon \div step) + 1) |-> (k - 1) * step]

\* the index of the last native sample at or before t (t within the extent)
RECURSIVE BracketIndex(_, _, _)
BracketIndex(traj, t, j) ==
    IF j < Len(traj) /\ traj[j + 1].t <= t
    THEN BracketIndex(traj, t, j + 1)
    ELSE j

\* mutant: the weights of the two bracketing samples are swapped
InterpComponent_SwappedWeights(t, t0, v0, t1, v1) ==
    Rat(v0 * (t1 - t0) + (v1 - v0) * (t1 - t), t1 - t0)

\* linear interpolation of one component between the bracketing samples
InterpComponent(t, t0, v0, t1, v1) ==
    Rat(v0 * (t1 - t0) + (v1 - v0) * (t - t0), t1 - t0)

\* mutant: the previous native sample is held instead of interpolating
InterpolatePose_HoldPrevious(traj, t) ==
    LET a == traj[BracketIndex(traj, t, 1)]
    IN [x |-> Rat(a.x, 1), y |-> Rat(a.y, 1), heading |-> Rat(a.heading, 1)]

InterpolatePose(traj, t) ==
    LET j == BracketIndex(traj, t, 1)
        a == traj[j]
    IN IF j = Len(traj)
       THEN [x |-> Rat(a.x, 1), y |-> Rat(a.y, 1), heading |-> Rat(a.heading, 1)]
       ELSE LET b == traj[j + 1]
            IN [x |-> InterpComponent(t, a.t, a.x, b.t, b.x),
                y |-> InterpComponent(t, a.t, a.y, b.t, b.y),
                heading |-> InterpComponent(t, a.t, a.heading, b.t, b.heading)]

\* mutant: the whole grid is kept and the source is extrapolated
TruncateToOverlap_NoTruncation(traj, grid) == grid

\* the target range of one source: the grid truncated to the overlap with
\* the source's native extent
TruncateToOverlap(traj, grid) ==
    SelectSeq(grid, LAMBDA g : traj[1].t <= g /\ g <= traj[Len(traj)].t)

\* mutant: one point is taken to be enough
EnoughPoints_AtLeastOne(traj) == Len(traj) >= 1

\* a source needs at least 2 points to be interpolated
EnoughPoints(traj) == Len(traj) >= 2

ResampleSource(traj, horizon, step) ==
    LET target == TruncateToOverlap(traj, TargetGrid(horizon, step))
    IN [timestamps |-> target,
        poses |-> [i \in 1..Len(target) |-> InterpolatePose(traj, target[i])]]

synchronize_trajectories(trajs, horizon, step) ==
    [n \in {m \in DOMAIN trajs : EnoughPoints(trajs[m])} |->
        ResampleSource(trajs[n], horizon, step)]

-----------------------------------------------------------------------------
(* Configuration values: the trees yaml.safe_load returns.  A string is a  *)
(* sequence of tokens, a literal piece of text or a reference $NAME /      *)
(* ${NAME} to an environment variable.                                     *)

NoneValue == [kind |-> "none"]

Lit(text) == [lit |-> text]

Var(name) == [var |-> name]

Str(tokens) == [kind |-> "str", s |-> tokens]

Text(text) == Str(<<Lit(text)>>)

Num(n) == [kind |-> "num", v |-> n]

List(items) == [kind |-> "list", items |-> items]

\* a dictionary keeps its keys (strings) in insertion order
Dict(keys, vals) == [kind |-> "dict", keys |-> keys, vals |-> vals]

IsDict(obj) == obj.kind = "dict"

HasKey(obj, key) == \E i \in DOMAIN obj.keys : obj.keys[i] = <<Lit(key)>>

\* obj[key], for a key the dictionary holds
Item(obj, key) ==
    obj.vals[CHOOSE i \in DOMAIN obj.keys : obj.keys[i] = <<Lit(key)>>]

\* obj.get(key, default)
Get(obj, key, default) == IF HasKey(obj, key) THEN Item(obj, key) ELSE default

\* os.path.expandvars: a reference to a defined variable is replaced by its
\* value, a reference to an undefined one is left as it is
expandvars(tokens) ==
    [i \in DOMAIN tokens |->
        IF "var" \in DOMAIN tokens[i] /\ tokens[i].var \in DOMAIN environ
        THEN Lit(environ[tokens[i].var])
        ELSE tokens[i]]

\* mutant: the elements of a list are not visited
RECURSIVE _expand_env_vars_SkipLists(_)
_expand_env_vars_SkipLists(obj) ==
    IF obj.kind = "dict"
    THEN Dict(obj.keys,
              [i \in DOMAIN obj.vals |-> _expand_env_vars_SkipLists(obj.vals[i])])
    ELSE IF obj.kind = "str"
    THEN Str(expandvars(obj.s))
    ELSE obj

RECURSIVE _expand_env_vars(_)
_expand_env_vars(obj) ==
    IF obj.kind = "dict"
    THEN Dict(obj.keys, [i \in DOMAIN obj.vals |-> _expand_env_vars(obj.vals[i])])
    ELSE IF obj.kind = "list"
    THEN List([i \in DOMAIN obj.items |-> _expand_env_vars(obj.items[i])])
    ELSE IF obj.kind = "str"
    THEN Str(expandvars(obj.s))
    ELSE obj

\* the constructor's argument: a configuration dictionary, or the path of a
\* YAML file (exists: whether the file is there; document: what it parses to)
ConfigDict(value) == [is_path |-> FALSE, exists |-> TRUE, document |-> value]

ConfigPath(exists, document) ==
    [is_path |-> TRUE, exists |-> exists, document |-> document]

\* _load_config: the parsed document with its environment variables expanded
_load_config(arg) == _expand_env_vars(arg.document)

-----------------------------------------------------------------------------
(* Inference engine *)

SupportedModelTypes == {Text("diffusiondrive"), Text("transfuser")}

\* truth value of a configuration value, as Python's `if value:` takes it
Truthy(value) ==
    CASE value.kind = "none" -> FALSE
      [] value.kind = "str" -> value.s # <<>>
      [] value.kind = "num" -> value.v # 0
      [] value.kind = "list" -> value.items # <<>>
      [] value.kind = "dict" -> value.keys # <<>>

\* TrajectoryInferenceEngine.__init__
NewEngine(model_config, cuda) ==
    [kind |-> "engine",
     model_type |-> Get(model_config, "type", Text("diffusiondrive")),
     checkpoint_path |-> Get(model_config, "checkpoint_path", NoneValue),
     lr |-> Get(model_config, "lr", Num(6)),   \* in units of 1e-4
     agent |-> NoneValue,
     device |-> IF cuda THEN "cuda" ELSE "cpu"]

\* the agent as _load_diffusiondrive_model / _load_transfuser_model leave it
NewAgent(engine, initialized) ==
    [kind |-> "agent", family |-> engine.model_type,
     weights |-> IF initialized THEN "checkpoint" ELSE "random",
     mode |-> "train", device |-> "cpu"]

\* load_model, given what the environment does: agent_ok, whether the agent
\* can be constructed, and weights_ok, whether agent.initialize() succeeds.
\* Returns the engine and whether load_model raised.
load_model(engine, agent_ok, weights_ok) ==
    IF engine.model_type \notin SupportedModelTypes
    THEN [raised |-> TRUE, engine |-> engine]
    ELSE IF ~agent_ok
    THEN [raised |-> TRUE, engine |-> engine]
    ELSE IF Truthy(engine.checkpoint_path) /\ ~weights_ok
    THEN [raised |-> TRUE,
          engine |-> [engine EXCEPT !.agent = NewAgent(engine, FALSE)]]
    ELSE [raised |-> FALSE,
          engine |-> [engine EXCEPT !.agent =
                        [NewAgent(engine, Truthy(engine.checkpoint_path))
                            EXCEPT !.mode = "eval", !.device = engine.device]]]

\* get_model_info (the parameter counts are left out)
get_model_info(engine) ==
    IF engine.agent = NoneValue
    THEN [status |-> "not_loaded"]
    ELSE [status |-> "loaded", model_type |-> engine.model_type,
          checkpoint_path |-> engine.checkpoint_path, device |-> engine.device]

-----------------------------------------------------------------------------
(* Data manager and visualizer, as far as the application object sees them *)

SceneTokens == {"scene_a", "scene_b"}

\* the data manager: its scene loader is None or offers the scene tokens
NewDataManager(data_config, has_loader) ==
    [kind |-> "data_manager", config |-> data_config,
     scene_loader |-> IF has_loader
                      THEN [kind |-> "scene_loader", tokens |-> SceneTokens]
                      ELSE NoneValue]

\* the sources the visualizer has a style for, with the style's alpha in
\* tenths (the configurations of the model override no style)
trajectory_styles ==
    [n \in SourceNames |->
        [alpha |-> CASE n = "prediction" -> 8
                     [] n = "ground_truth" -> 9
                     [] n = "pdm_closed" -> 7]]

NewVisualizer(viz_config) ==
    [kind |-> "visualizer", config |-> viz_config,
     trajectory_styles |-> trajectory_styles]

-----------------------------------------------------------------------------
(* TrajectoryPredictionApp.__init__ *)

NoFrame == [op |-> "none"]

NoOutcome == [op |-> "none", status |-> "none", at |-> "none", value |-> NoneValue]

Returned(op, value) == [op |-> op, status |-> "returned", at |-> "none", value |-> value]

Raised(op, stage) == [op |-> op, status |-> "raised", at |-> stage, value |-> NoneValue]

\* what the constructor's fields hold, and where it raised ("none": nowhere)
Constructed(stage, cfg, engine, dm, viz, loads) ==
    [raised_at |-> stage, config |-> cfg, inference_engine |-> engine,
     data_manager |-> dm, visualizer |-> viz, loads |-> loads]

\* __init__, lines 35-38: a path is loaded (and expanded), a dictionary is
\* used as it is given
ResolveConfig(arg) ==
    IF arg.is_path THEN _load_config(arg) ELSE arg.document

\* _initialize_components: the engine and its model, then the data manager,
\* then the visualizer
_initialize_components(cfg, cuda, agent_ok, weights_ok, data_ok, has_loader) ==
    IF ~HasKey(cfg, "model")
    THEN Constructed("config[model]", cfg, NoneValue, NoneValue, NoneValue, 0)
    ELSE
    LET loaded == load_model(NewEngine(Item(cfg, "model"), cuda), agent_ok, weights_ok)
    IN IF loaded.raised
       THEN Constructed("load_model", cfg, loaded.engine, NoneValue, NoneValue, 1)
       ELSE IF ~HasKey(cfg, "data")
       THEN Constructed("config[data]", cfg, loaded.engine, NoneValue, NoneValue, 1)
       ELSE IF ~data_ok
       THEN Constructed("TrajectoryDataManager", cfg, loaded.engine, NoneValue,
                        NoneValue, 1)
       ELSE Constructed("none", cfg, loaded.engine,
                        NewDataManager(Item(cfg, "data"), has_loader),
                        NewVisualizer(Get(cfg, "visualization", Dict(<<>>, <<>>))), 1)

\* __init__: the configuration, the logging set-up, the components
app_init(arg, cuda, agent_ok, weights_ok, data_ok, has_loader) ==
    IF arg.is_path /\ ~arg.exists
    THEN Constructed("_load_config", NoneValue, NoneValue, NoneValue, NoneValue, 0)
    ELSE IF ~IsDict(ResolveConfig(arg))
    THEN Constructed("_setup_logging", ResolveConfig(arg), NoneValue, NoneValue,
                     NoneValue, 0)
    ELSE _initialize_components(ResolveConfig(arg), cuda, agent_ok, weights_ok,
                                data_ok, has_loader)

Construct ==
    /\ pc = "app_new"
    /\ \E cuda, agent_ok, weights_ok, data_ok, has_loader \in BOOLEAN :
          LET made == app_init(config_arg, cuda, agent_ok, weights_ok, data_ok,
                               has_loader)
          IN /\ config' = made.config
             /\ inference_engine' = made.inference_engine
             /\ data_manager' = made.data_manager
             /\ visualizer' = made.visualizer
             /\ load_model_calls' = load_model_calls + made.loads
             /\ IF made.raised_at = "none"
                THEN /\ pc' = "app_ready"
                     /\ outcome' = Returned("__init__", NoneValue)
                ELSE /\ pc' = "app_failed"
                     /\ outcome' = Raised("__init__", made.raised_at)
    /\ UNCHANGED <<sync_vars, environ, config_arg, predicted, frame>>

-----------------------------------------------------------------------------
(* One scene as the data manager and the agent deliver it.  In the         *)
(* application one tick is 0.1 s.                                          *)

TicksPerSecond == 10

\* target sample interval of the application's synchronizer calls: dt = 0.1
SyncDtTicks == 1

\* predict_single_scene adds a buffer of 1.0 s to the end of the window
BufferTicks == 10

\* the stages of predict_single_scene at which the environment can fail
SceneStages ==
    {"load_scene_data", "get_all_trajectories", "get_agent_input",
     "predict_trajectory", "synchronize_trajectories", "mkdir", "render_bev",
     "render_comparison", "render_statistics", "savefig"}

ShapeOfSource(n) == IF n = "ground_truth" THEN "gt_like" ELSE "pred_like"

\* native timestamps of a source: one sample, two, or four (ticks of 0.1 s)
SceneTimestampSets == {{5}, {5, 10}, {0, 5, 10, 15}}

ReferenceNames == {"ground_truth", "pdm_closed"}

\* native timestamps of a stored reference: one sample, or two
ReferenceTimestampSets == {{5}, {5, 10}}

\* what get_all_trajectories returns: the references the scene has
ExistingTrajectories ==
    UNION {[names -> ReferenceTimestampSets] : names \in SUBSET ReferenceNames}

\* fails_at: the first stage the environment fails, or "none"; camera_ok:
\* whether the front camera image can be read and drawn; existing: the
\* timestamps of the stored references; prediction: those of the prediction
SceneEnvs ==
    [fails_at : SceneStages \cup {"none"}, camera_ok : BOOLEAN,
     existing : ExistingTrajectories, prediction : SceneTimestampSets]

\* all_trajectories: the references and, under "prediction", the prediction
AllTrajectories(env) ==
    [n \in DOMAIN env.existing \cup {"prediction"} |->
        TrajectoryOf(ShapeOfSource(n),
                     IF n = "prediction" THEN env.prediction ELSE env.existing[n])]

TimeWindows == {<<0, 10>>, <<5, 10>>}

-----------------------------------------------------------------------------
(* Inference: TrajectoryInferenceEngine.predict_trajectory *)

\* mutant: the model is loaded again on every prediction
predict_trajectory_Reloads(engine, ok) ==
    [raised |-> ~ok,
     engine |-> [engine EXCEPT !.agent = NewAgent(engine, FALSE)],
     loads |-> 1]

\* raises when no model is loaded or when the agent fails (ok = FALSE);
\* the engine is read and left as it is, and nothing is loaded
predict_trajectory(engine, ok) ==
    IF engine.agent = NoneValue
    THEN [raised |-> TRUE, engine |-> engine, loads |-> 0]
    ELSE [raised |-> ~ok, engine |-> engine, loads |-> 0]

-----------------------------------------------------------------------------
(* Visualizer: the comprehensive view *)

\* the samples of a synchronized source inside the time window
InWindow(traj_data, time_window) ==
    SelectSeq(traj_data.timestamps,
              LAMBDA t : t >= time_window[1] /\ t <= time_window[2])

\* the sources a renderer draws: those it has a style for and that have a
\* sample inside the window
SourcesDrawn(trajs, time_window) ==
    {n \in DOMAIN trajs \cap DOMAIN trajectory_styles :
        InWindow(trajs[n], time_window) # <<>>}

\* (t - time_start) / (time_end - time_start)
time_progress(t, time_window) ==
    Rat(t - time_window[1], time_window[2] - time_window[1])

\* mutant: the progress is counted back from the end of the window
BevAlpha_FadeTowardsStart(style_alpha, t, time_window) ==
    LET p == Rat(time_window[2] - t, time_window[2] - time_window[1])
    IN Rat(style_alpha * (10 * p.den - 3 * p.num), 100 * p.den)

\* style["alpha"] * (1.0 - 0.3 * time_progress), the style's alpha in tenths
BevAlpha(style_alpha, t, time_window) ==
    LET p == time_progress(t, time_window)
    IN Rat(style_alpha * (10 * p.den - 3 * p.num), 100 * p.den)

\* one alpha per line segment, taken at the segment's first sample
SegmentAlphas(filtered_times, time_window, style_alpha) ==
    [i \in 1..(Len(filtered_times) - 1) |->
        BevAlpha(style_alpha, filtered_times[i], time_window)]

\* max(0.3, 1.0 - 0.5 * time_progress)
CameraAlpha(t, time_window) ==
    LET p == time_progress(t, time_window)
        faded == Rat(2 * p.den - p.num, 2 * p.den)
    IN IF RatLe(faded, Rat(3, 10)) THEN Rat(3, 10) ELSE faded

\* _add_trajectory_projections_to_image: of the samples inside the window
\* those in the camera's field of view are kept, and with more than one of
\* them a line is drawn, one alpha per segment
_add_trajectory_projections_to_image(trajs, time_window, in_fov) ==
    [n \in SourcesDrawn(trajs, time_window) |->
        LET valid_times == SelectSeq(InWindow(trajs[n], time_window),
                                     LAMBDA t : t \in in_fov)
        IN [times |-> IF Len(valid_times) > 1 THEN valid_times ELSE <<>>,
            alphas |-> [i \in 1..(Len(valid_times) - 1) |->
                           CameraAlpha(valid_times[i], time_window)]]]

\* _render_bev_trajectories: per source drawn, the timestamps of its samples
\* and the number of line segments; the legend names the sources given
_render_bev_trajectories(trajs, time_window) ==
    [raised |-> FALSE,
     drawn |-> [n \in SourcesDrawn(trajs, time_window) |->
                  [times |-> InWindow(trajs[n], time_window),
                   segments |-> Len(InWindow(trajs[n], time_window)) - 1,
                   alphas |-> SegmentAlphas(InWindow(trajs[n], time_window),
                                            time_window, trajectory_styles[n].alpha)]],
     legend |-> {n \in DOMAIN trajectory_styles : n \in DOMAIN trajs}]

\* _render_camera_view: any exception is caught and a placeholder is drawn
_render_camera_view(trajs, time_window, camera_ok) ==
    IF camera_ok
    THEN [raised |-> FALSE, view |-> "image",
          projected |-> SourcesDrawn(trajs, time_window)]
    ELSE [raised |-> FALSE, view |-> "placeholder", projected |-> {}]

_render_trajectory_comparison(trajs, time_window) ==
    [raised |-> FALSE, drawn |-> SourcesDrawn(trajs, time_window)]

MetricKeys == {"ade", "fde", "max_error", "rmse"}

EmptyMetrics == [keys |-> {}, compared |-> 0]

\* _calculate_trajectory_metrics: the two pose arrays are cut to the shorter
\* length and compared index by index
_calculate_trajectory_metrics(gt_poses, pred_poses) ==
    [keys |-> MetricKeys, compared |-> Min2(Len(gt_poses), Len(pred_poses))]

\* mutant: the metrics are computed without asking whether the ground truth
\* is there, which raises KeyError when it is absent
_render_statistics_panel_Unguarded(trajs) ==
    IF "prediction" \in DOMAIN trajs /\ "ground_truth" \notin DOMAIN trajs
    THEN [raised |-> TRUE, metrics |-> EmptyMetrics, details |-> {}]
    ELSE [raised |-> FALSE, metrics |-> EmptyMetrics,
          details |-> DOMAIN trajs \cap DOMAIN trajectory_styles]

_render_statistics_panel(trajs) ==
    [raised |-> FALSE,
     metrics |-> IF "ground_truth" \in DOMAIN trajs /\ "prediction" \in DOMAIN trajs
                 THEN _calculate_trajectory_metrics(trajs["ground_truth"].poses,
                                                    trajs["prediction"].poses)
                 ELSE EmptyMetrics,
     details |-> DOMAIN trajs \cap DOMAIN trajectory_styles]

NoFigure == [raised_at |-> "none", kind |-> "none"]

Figure(stage, bev, camera, comparison, statistics, saved) ==
    [raised_at |-> stage, kind |-> "figure", bev |-> bev, camera |-> camera,
     comparison |-> comparison, statistics |-> statistics, saved |-> saved]

\* create_comprehensive_view: the four panels in order, then the file;
\* fails_at is the stage the environment fails at, to_file whether a
\* save_path is given
create_comprehensive_view(trajs, time_window, fails_at, camera_ok, to_file) ==
    LET bev == _render_bev_trajectories(trajs, time_window)
        camera == _render_camera_view(trajs, time_window, camera_ok)
        comparison == _render_trajectory_comparison(trajs, time_window)
        statistics == _render_statistics_panel(trajs)
        stage ==
            IF fails_at = "render_bev" \/ bev.raised THEN "render_bev"
            ELSE IF camera.raised THEN "render_camera"
            ELSE IF fails_at = "render_comparison" \/ comparison.raised
            THEN "render_comparison"
            ELSE IF fails_at = "render_statistics" \/ statistics.raised
            THEN "render_statistics"
            ELSE IF to_file /\ fails_at = "savefig" THEN "savefig"
            ELSE "none"
    IN Figure(stage, bev, camera, comparison, statistics, to_file /\ stage = "none")

-----------------------------------------------------------------------------
(* TrajectoryPredictionApp.predict_single_scene *)

\* step 7: metrics only if ground truth and prediction are both there
SceneMetrics(synced) ==
    IF "ground_truth" \in DOMAIN synced /\ "prediction" \in DOMAIN synced
    THEN _calculate_trajectory_metrics(synced["ground_truth"].poses,
                                       synced["prediction"].poses)
    ELSE EmptyMetrics

\* mutant: a failed save of the figure is logged and the result returned
SceneRaisedAt_SaveErrorSwallowed(engine, env, fig, save_visualization) ==
    IF env.fails_at \in {"load_scene_data", "get_all_trajectories", "get_agent_input"}
    THEN env.fails_at
    ELSE IF predict_trajectory(engine, env.fails_at # "predict_trajectory").raised
    THEN "predict_trajectory"
    ELSE IF env.fails_at = "synchronize_trajectories" THEN env.fails_at
    ELSE IF save_visualization /\ env.fails_at = "mkdir" THEN env.fails_at
    ELSE IF fig.raised_at = "savefig" THEN "none"
    ELSE fig.raised_at

\* the stage at which predict_single_scene raises, or "none": no step is
\* wrapped in a try block, so the first failure ends the call
SceneRaisedAt(engine, env, fig, save_visualization) ==
    IF env.fails_at \in {"load_scene_data", "get_all_trajectories", "get_agent_input"}
    THEN env.fails_at
    ELSE IF predict_trajectory(engine, env.fails_at # "predict_trajectory").raised
    THEN "predict_trajectory"
    ELSE IF env.fails_at = "synchronize_trajectories" THEN env.fails_at
    ELSE IF save_visualization /\ env.fails_at = "mkdir" THEN env.fails_at
    ELSE fig.raised_at

\* whether the call gets as far as calling predict_trajectory
ReachesPrediction(env) ==
    env.fails_at \notin {"load_scene_data", "get_all_trajectories", "get_agent_input"}

\* mutant: the horizon ends with the time window, without the buffer
SceneSyncRequest_NoBuffer(time_window) ==
    [time_horizon |-> time_window[2], dt |-> SyncDtTicks]

\* lines 165-169: the horizon and the interval that predict_single_scene
\* asks the synchronizer for (time_window[1] + 1.0 and 0.1)
SceneSyncRequest(time_window) ==
    [time_horizon |-> time_window[2] + BufferTicks, dt |-> SyncDtTicks]

predict_single_scene(engine, scene_token, time_window, save_visualization, env) ==
    LET all_trajectories == AllTrajectories(env)
        sync_request == SceneSyncRequest(time_window)
        synchronized_trajectories ==
            synchronize_trajectories(all_trajectories, sync_request.time_horizon,
                                     sync_request.dt)
        fig == create_comprehensive_view(synchronized_trajectories, time_window,
                                         env.fails_at, env.camera_ok,
                                         save_visualization)
        stage == SceneRaisedAt(engine, env, fig, save_visualization)
    IN IF stage # "none"
       THEN Raised("predict_single_scene", stage)
       ELSE Returned("predict_single_scene",
                     [scene_token |-> scene_token,
                      time_window |-> time_window,
                      raw |-> DOMAIN all_trajectories,
                      sync_request |-> sync_request,
                      synchronized |-> synchronized_trajectories,
                      metrics |-> SceneMetrics(synchronized_trajectories),
                      figure |-> fig,
                      saved |-> save_visualization])

\* the engine after an operation that calls predict_trajectory when reached
EngineAfter(reached) ==
    IF reached THEN predict_trajectory(inference_engine, TRUE).engine
    ELSE inference_engine

LoadsAfter(reached) ==
    IF reached THEN predict_trajectory(inference_engine, TRUE).loads ELSE 0

\* the failure of the environment that a call of predict_single_scene
\* meets: without a file to write, no directory is made and nothing is saved
SceneFailure(env, save_visualization) ==
    IF ~save_visualization /\ env.fails_at \in {"mkdir", "savefig"}
    THEN "none"
    ELSE env.fails_at

\* whether the camera panel was rendered and its rendering failed
CameraFailure(env, failure) ==
    /\ ~env.camera_ok
    /\ failure \in {"none", "render_comparison", "render_statistics", "savefig"}

PredictSingleScene ==
    /\ pc = "app_ready"
    /\ \E scene_token \in SceneTokens, time_window \in TimeWindows,
          save_visualization \in BOOLEAN, env \in SceneEnvs :
          /\ outcome' = predict_single_scene(inference_engine, scene_token,
                                             time_window, save_visualization, env)
          /\ frame' = [op |-> "predict_single_scene",
                       failure |-> SceneFailure(env, save_visualization),
                       camera_failed |->
                           CameraFailure(env, SceneFailure(env, save_visualization))]
          /\ predicted' = (predicted \/ ReachesPrediction(env))
          /\ inference_engine' = EngineAfter(ReachesPrediction(env))
          /\ load_model_calls' = load_model_calls + LoadsAfter(ReachesPrediction(env))
    /\ pc' = "app_returned"
    /\ UNCHANGED <<sync_vars, environ, config_arg, config, data_manager,
                   visualizer>>

\* the caller takes the result or the exception; the application object is
\* ready for its next call
ReturnToCaller ==
    /\ pc = "app_returned"
    /\ pc' = "app_ready"
    /\ outcome' = NoOutcome
    /\ frame' = NoFrame
    /\ UNCHANGED <<sync_vars, environ, config_arg, config, inference_engine,
                   data_manager, visualizer, load_model_calls, predicted>>

-----------------------------------------------------------------------------
(* TrajectoryPredictionApp.predict_batch_scenes *)

\* the scenes a loop meets: the environment fails at one of two stages or
\* nowhere, and the ground truth is stored or not
LoopSceneEnvs ==
    {env \in SceneEnvs :
        /\ env.fails_at \in {"none", "load_scene_data", "render_bev"}
        /\ env.prediction = {5, 10}
        /\ "pdm_closed" \notin DOMAIN env.existing
        /\ \A n \in DOMAIN env.existing : env.existing[n] = {5, 10}}

TokenLists == UNION {[1..n -> SceneTokens] : n \in 0..MaxBatch}

MaxScenesValues == {NoneValue} \cup {Num(k) : k \in 0..MaxBatch}

\* lines 504-505: `if max_scenes: scene_tokens = scene_tokens[:max_scenes]`
LimitScenes(scene_tokens, max_scenes) ==
    IF Truthy(max_scenes)
    THEN SubSeq(scene_tokens, 1, Min2(max_scenes.v, Len(scene_tokens)))
    ELSE scene_tokens

\* _create_batch_summary: empty without results, else the counts
_create_batch_summary(results, failed_scenes) ==
    IF results = <<>>
    THEN [total_scenes |-> 0, successful_scenes |-> 0, failed_scenes |-> 0,
          with_metrics |-> 0, written |-> FALSE]
    ELSE [total_scenes |-> Len(results) + Len(failed_scenes),
          successful_scenes |-> Len(results),
          failed_scenes |-> Len(failed_scenes),
          with_metrics |-> Cardinality({k \in DOMAIN results :
                                          results[k].metrics.keys # {}}),
          written |-> TRUE]

\* lines 504-513: the list is cut, the output directory made, the two
\* lists start empty; a directory that cannot be made ends the call
BatchBegin ==
    /\ pc = "app_ready"
    /\ \E scene_tokens \in TokenLists, max_scenes \in MaxScenesValues,
          time_window \in TimeWindows, mkdir_ok \in BOOLEAN :
          IF mkdir_ok
          THEN /\ frame' = [op |-> "predict_batch_scenes",
                            given |-> scene_tokens,
                            max_scenes |-> max_scenes,
                            scene_tokens |-> LimitScenes(scene_tokens, max_scenes),
                            time_window |-> time_window,
                            i |-> 1,
                            results |-> <<>>,
                            failed_scenes |-> <<>>,
                            attempts |-> <<>>]
               /\ pc' = "batch_loop"
               /\ UNCHANGED outcome
          ELSE /\ frame' = [op |-> "predict_batch_scenes"]
               /\ outcome' = Raised("predict_batch_scenes", "mkdir")
               /\ pc' = "app_returned"
    /\ UNCHANGED <<sync_vars, environ, config_arg, config, inference_engine,
                   data_manager, visualizer, load_model_calls, predicted>>

\* mutant: a failed scene ends the loop
BatchIndexAfter_StopOnFailure(i, n, failed) == IF failed THEN n + 1 ELSE i + 1

\* the loop goes on with the next scene whether or not the scene failed
BatchIndexAfter(i, n, failed) == i + 1

\* one pass of the loop body: the scene is predicted; a result is appended
\* to results, an exception to failed_scenes
BatchStep ==
    /\ pc = "batch_loop"
    /\ frame.i <= Len(frame.scene_tokens)
    /\ \E env \in LoopSceneEnvs :
          LET scene_token == frame.scene_tokens[frame.i]
              call == predict_single_scene(inference_engine, scene_token,
                                           frame.time_window, TRUE, env)
              failed == call.status = "raised"
          IN /\ frame' =
                    [frame EXCEPT
                        !.i = BatchIndexAfter(frame.i, Len(frame.scene_tokens), failed),
                        !.results =
                            IF failed THEN @
                            ELSE Append(@, [scene_token |-> scene_token,
                                            metrics |-> call.value.metrics]),
                        !.failed_scenes =
                            IF failed
                            THEN Append(@, [token |-> scene_token, error |-> call.at])
                            ELSE @,
                        !.attempts = Append(@, [token |-> scene_token,
                                                position |-> frame.i,
                                                failed |-> failed])]
             /\ predicted' = (predicted \/ ReachesPrediction(env))
             /\ inference_engine' = EngineAfter(ReachesPrediction(env))
             /\ load_model_calls' = load_model_calls + LoadsAfter(ReachesPrediction(env))
    /\ UNCHANGED <<pc, sync_vars, environ, config_arg, config, data_manager,
                   visualizer, outcome>>

\* after the loop: the summary is written (which can fail when there is a
\* file to write) and the results are returned
BatchEnd ==
    /\ pc = "batch_loop"
    /\ frame.i > Len(frame.scene_tokens)
    /\ \E summary_ok \in BOOLEAN :
          LET summary == _create_batch_summary(frame.results, frame.failed_scenes)
          IN outcome' =
                IF summary.written /\ ~summary_ok
                THEN Raised("predict_batch_scenes", "_create_batch_summary")
                ELSE Returned("predict_batch_scenes",
                              [given |-> frame.given,
                               max_scenes |-> frame.max_scenes,
                               scene_tokens |-> frame.scene_tokens,
                               results |-> frame.results,
                               failed_scenes |-> frame.failed_scenes,
                               summary |-> summary])
    /\ frame' = [op |-> "predict_batch_scenes"]
    /\ pc' = "app_returned"
    /\ UNCHANGED <<sync_vars, environ, config_arg, config, inference_engine,
                   data_manager, visualizer, load_model_calls, predicted>>

-----------------------------------------------------------------------------
(* TrajectoryPredictionApp.create_trajectory_gif and                       *)
(* TrajectoryVisualizer.create_gif_visualization                           *)

\* durations, window sizes and step sizes in ticks; all are multiples of
\* half a second, which floating-point addition sums exactly
GifDurations == {10, 20}

GifWindowSizes == {10, 30}

GifStepSizes == {5, 10}

GifStages ==
    {"none", "mkdir", "load_scene_data", "predict_trajectory",
     "synchronize_trajectories", "render_bev", "savefig", "gif_save", "stat"}

GifSceneEnvs ==
    {env \in [fails_at : GifStages, camera_ok : BOOLEAN,
              existing : ExistingTrajectories, prediction : SceneTimestampSets] :
        /\ env.prediction \in {{5}, {0, 5, 10, 15}}
        /\ "pdm_closed" \notin DOMAIN env.existing
        /\ \A n \in DOMAIN env.existing : env.existing[n] = {5, 10}}

\* lines 273-277: windows are added while the window still ends inside the
\* total duration
RECURSIVE TimeWindowsFrom(_, _, _, _)
TimeWindowsFrom(current_start, total_duration, window_size, step_size) ==
    IF current_start + window_size <= total_duration
    THEN <<<<current_start, current_start + window_size>>>>
         \o TimeWindowsFrom(current_start + step_size, total_duration,
                            window_size, step_size)
    ELSE <<>>

\* create_gif_visualization: one comprehensive view per window, each saved
\* to a buffer; then frames[0].save, which raises IndexError without frames
create_gif_visualization(trajs, time_windows, fails_at, camera_ok) ==
    LET figs == [k \in DOMAIN time_windows |->
                    create_comprehensive_view(trajs, time_windows[k], fails_at,
                                              camera_ok, FALSE)]
        stage ==
            IF time_windows = <<>> THEN "frames[0]"
            ELSE IF figs[1].raised_at # "none" THEN figs[1].raised_at
            ELSE IF fails_at = "savefig" THEN "savefig"
            ELSE IF fails_at = "gif_save" THEN "gif_save"
            ELSE "none"
    IN [raised_at |-> stage,
        frames |-> IF stage = "none" THEN Len(time_windows) ELSE 0,
        placeholders |-> IF stage = "none" /\ ~camera_ok THEN Len(time_windows) ELSE 0]

\* the stage at which create_trajectory_gif raises, or "none"
GifRaisedAt(engine, env, gif) ==
    IF env.fails_at \in {"mkdir", "load_scene_data", "get_all_trajectories",
                         "get_agent_input"}
    THEN env.fails_at
    ELSE IF predict_trajectory(engine, env.fails_at # "predict_trajectory").raised
    THEN "predict_trajectory"
    ELSE IF env.fails_at = "synchronize_trajectories" THEN env.fails_at
    ELSE IF gif.raised_at # "none" THEN gif.raised_at
    ELSE IF env.fails_at = "stat" THEN "stat"
    ELSE "none"

\* whether the call gets as far as calling predict_trajectory
GifReachesPrediction(env) ==
    env.fails_at \notin {"mkdir", "load_scene_data", "get_all_trajectories",
                         "get_agent_input"}

\* lines 266-270: the horizon and the interval that create_trajectory_gif
\* asks the synchronizer for (total_duration and 0.1)
GifSyncRequest(total_duration) ==
    [time_horizon |-> total_duration, dt |-> SyncDtTicks]

create_trajectory_gif(engine, scene_token, total_duration, window_size, step_size, env) ==
    LET sync_request == GifSyncRequest(total_duration)
        all_trajectories ==
            synchronize_trajectories(AllTrajectories(env), sync_request.time_horizon,
                                     sync_request.dt)
        time_windows == TimeWindowsFrom(0, total_duration, window_size, step_size)
        gif == create_gif_visualization(all_trajectories, time_windows,
                                        env.fails_at, env.camera_ok)
        stage == GifRaisedAt(engine, env, gif)
    IN IF stage # "none"
       THEN Raised("create_trajectory_gif", stage)
       ELSE Returned("create_trajectory_gif",
                     [scene_token |-> scene_token,
                      total_duration |-> total_duration,
                      sync_request |-> sync_request,
                      synchronized |-> all_trajectories,
                      time_windows |-> time_windows,
                      total_frames |-> Len(time_windows),
                      frames |-> gif.frames,
                      placeholders |-> gif.placeholders])

\* the failure of the environment that a call of create_trajectory_gif
\* meets: without a window nothing is rendered
GifFailure(env, time_windows) ==
    IF time_windows = <<>> /\ env.fails_at \in {"render_bev", "savefig", "gif_save", "stat"}
    THEN "none"
    ELSE env.fails_at

CreateTrajectoryGif ==
    /\ pc = "app_ready"
    /\ \E scene_token \in SceneTokens, total_duration \in GifDurations,
          window_size \in GifWindowSizes, step_size \in GifStepSizes,
          env \in GifSceneEnvs :
          LET time_windows == TimeWindowsFrom(0, total_duration, window_size, step_size)
              failure == GifFailure(env, time_windows)
          IN /\ outcome' = create_trajectory_gif(inference_engine, scene_token,
                                                 total_duration, window_size,
                                                 step_size, env)
             /\ frame' = [op |-> "create_trajectory_gif",
                          failure |-> failure,
                          camera_failed |->
                              /\ ~env.camera_ok
                              /\ time_windows # <<>>
                              /\ failure \in {"none", "savefig", "gif_save", "stat"}]
             /\ predicted' = (predicted \/ GifReachesPrediction(env))
             /\ inference_engine' = EngineAfter(GifReachesPrediction(env))
             /\ load_model_calls' = load_model_calls + LoadsAfter(GifReachesPrediction(env))
    /\ pc' = "app_returned"
    /\ UNCHANGED <<sync_vars, environ, config_arg, config, data_manager,
                   visualizer>>

-----------------------------------------------------------------------------
(* TrajectoryPredictionApp.create_sliding_window_gif                       *)

\* sampling rates in Hz and total durations in ticks; the sampling intervals
\* (1 s and 0.5 s) are sums that floating-point addition makes exactly
SamplingRates == {1, 2}

SlidingDurations == {0, 5, 10}

MicrosPerTick == 100000

\* the frames of a scene, by their timestamps in microseconds
SceneFrameLists == {<<>>, <<0, 500000, 1000000>>}

\* lines 350-355: sampling times from 0 while they do not pass the duration
RECURSIVE SamplingTimesFrom(_, _, _)
SamplingTimesFrom(current_time, total_duration, sampling_interval) ==
    IF current_time <= total_duration
    THEN <<current_time>>
         \o SamplingTimesFrom(current_time + sampling_interval, total_duration,
                              sampling_interval)
    ELSE <<>>

Abs(x) == IF x < 0 THEN -x ELSE x

\* the first frame whose time is closest to the target, as the loop with the
\* strict comparison finds it
RECURSIVE BestFrame(_, _, _, _)
BestFrame(frames, target_time, k, best) ==
    IF k > Len(frames) THEN best
    ELSE IF best = 0
            \/ Abs(frames[k] \div MicrosPerTick - target_time)
               < Abs(frames[best] \div MicrosPerTick - target_time)
    THEN BestFrame(frames, target_time, k + 1, k)
    ELSE BestFrame(frames, target_time, k + 1, best)

\* _get_frame_at_time: None without frames or when anything raises
\* (input_ok = FALSE: the frame's agent input cannot be read)
_get_frame_at_time(frames, target_time, input_ok) ==
    LET best == BestFrame(frames, target_time, 1, 0)
    IN IF best = 0 \/ ~input_ok
       THEN NoneValue
       ELSE [kind |-> "frame_data", frame |-> best,
             actual_time |-> frames[best] \div MicrosPerTick,
             time_diff |-> Abs(frames[best] \div MicrosPerTick - target_time)]

\* values of history_fade_steps
HistoryFadeSteps == {0, 1, 2}

\* whether the frames of the scene carry a front camera
FrontCameras == BOOLEAN

SlidingStages == {"none", "get_all_trajectories", "render_bev", "savefig",
                  "gif_save", "stat"}

\* the slice s[-k:] of a list: the whole list for k = 0, else its last k
\* entries (all of them when there are fewer)
LastEntries(s, k) ==
    SubSeq(s, (IF k = 0 THEN 0 ELSE Max2(Len(s) - k, 0)) + 1, Len(s))

\* _add_history_trajectories_to_bev: one faded line for each entry of
\* history_predictions[-history_fade_steps:], with fade factor
\* (i + 1) / history_fade_steps, a division that raises ZeroDivisionError
\* for history_fade_steps = 0 (every prediction has at least two poses)
_add_history_trajectories_to_bev(history_predictions, history_fade_steps) ==
    LET shown == LastEntries(history_predictions, history_fade_steps)
    IN IF shown # <<>> /\ history_fade_steps = 0
       THEN [raised_at |-> "fade_factor", drawn |-> <<>>]
       ELSE [raised_at |-> "none",
             drawn |-> [i \in DOMAIN shown |->
                           [time |-> shown[i].time,
                            fade_factor |-> Rat(i, history_fade_steps)]]]

NoHistoryDrawn == [raised_at |-> "none", drawn |-> <<>>]

\* _render_sliding_bev_view: the base layers, the reference trajectories,
\* the history when there is any, the current prediction
_render_sliding_bev_view(history_predictions, history_fade_steps, fails_at) ==
    IF fails_at = "render_bev"
    THEN [raised_at |-> "render_bev", drawn |-> <<>>]
    ELSE IF history_predictions # <<>>
    THEN _add_history_trajectories_to_bev(history_predictions, history_fade_steps)
    ELSE NoHistoryDrawn

\* _render_sliding_camera_view: with a front camera the projection helper is
\* called with six arguments, and its only definition (lines 827-833) takes
\* four, which raises TypeError; without one a text is shown
_render_sliding_camera_view(front_camera) ==
    IF front_camera THEN "_add_trajectory_projections_to_image" ELSE "none"

\* _create_sliding_window_frame: the BEV view, then the camera view
_create_sliding_window_frame(history, history_fade_steps, fails_at, front_camera) ==
    LET bev == _render_sliding_bev_view(history, history_fade_steps, fails_at)
    IN IF bev.raised_at # "none" THEN bev
       ELSE [raised_at |-> _render_sliding_camera_view(front_camera),
             drawn |-> bev.drawn]

\* what get_all_trajectories gives create_sliding_window_gif: the references
\* the scene has, under the keys the application uses
SlidingReferences ==
    {[n \in names |-> {5, 10}] : names \in SUBSET ReferenceNames}

\* the references a view draws, by their legend labels, when it looks them
\* up under gt_key and pdm_key
references_drawn(reference_trajectories, gt_key, pdm_key) ==
    (IF gt_key \in DOMAIN reference_trajectories THEN {"GT"} ELSE {})
    \cup (IF pdm_key \in DOMAIN reference_trajectories THEN {"PDM-Closed"} ELSE {})

\* lines 475-480 of _render_sliding_bev_view: if "gt" in
\* reference_trajectories, if "pdm" in reference_trajectories
bev_references(reference_trajectories) ==
    references_drawn(reference_trajectories, "gt", "pdm")

\* lines 686-695 of _render_trajectory_comparison_view: the same two keys
comparison_references(reference_trajectories) ==
    references_drawn(reference_trajectories, "gt", "pdm")

\* mutant: the slice runs up to and including the current frame
history_predictions_IncludesCurrent(frame_predictions, frame_idx, show_history) ==
    IF show_history THEN SubSeq(frame_predictions, 1, frame_idx + 1) ELSE <<>>

\* line 354: frame_predictions[:frame_idx] if show_history else [], for
\* frame_idx counted from 0
history_predictions(frame_predictions, frame_idx, show_history) ==
    IF show_history THEN SubSeq(frame_predictions, 1, frame_idx) ELSE <<>>

\* the first frame that cannot be made, or 0
RECURSIVE FirstRaising(_, _)
FirstRaising(figs, k) ==
    IF k > Len(figs) THEN 0
    ELSE IF figs[k].raised_at # "none" THEN k
    ELSE FirstRaising(figs, k + 1)

\* create_sliding_window_visualization: one figure per frame prediction,
\* each saved to a buffer; then frames[0].save, which raises IndexError
\* without frames
create_sliding_window_visualization(frame_predictions, reference_trajectories, show_history, history_fade_steps, fails_at, front_camera) ==
    LET figs == [k \in DOMAIN frame_predictions |->
                    _create_sliding_window_frame(
                        history_predictions(frame_predictions, k - 1, show_history),
                        history_fade_steps, fails_at, front_camera)]
        bad == FirstRaising(figs, 1)
        begun == IF bad # 0 THEN bad ELSE Len(frame_predictions)
        stage ==
            IF frame_predictions = <<>> THEN "frames[0]"
            ELSE IF bad # 0 /\ (bad = 1 \/ fails_at # "savefig") THEN figs[bad].raised_at
            ELSE IF fails_at = "savefig" THEN "savefig"
            ELSE IF fails_at = "gif_save" THEN "gif_save"
            ELSE "none"
    IN [raised_at |-> stage,
        frame_predictions |-> frame_predictions,
        references |->
            IF stage = "none"
            THEN [bev |-> bev_references(reference_trajectories),
                  comparison |-> comparison_references(reference_trajectories)]
            ELSE [bev |-> {}, comparison |-> {}],
        passed |-> [k \in 1..begun |->
                       history_predictions(frame_predictions, k - 1, show_history)],
        frames |-> IF stage = "none" THEN Len(frame_predictions) ELSE 0,
        history |-> IF stage = "none"
                    THEN [k \in DOMAIN figs |-> figs[k].drawn]
                    ELSE <<>>]

\* lines 345-365: the output directory, the sampling times, the scene
SlidingBegin ==
    /\ pc = "app_ready"
    /\ \E scene_token \in SceneTokens, sampling_rate \in SamplingRates,
          total_duration \in SlidingDurations, frames \in SceneFrameLists,
          show_history \in BOOLEAN, history_fade_steps \in HistoryFadeSteps,
          fails_at \in {"none", "mkdir", "load_scene_data"} :
          IF fails_at = "none"
          THEN /\ frame' = [op |-> "create_sliding_window_gif",
                            scene_token |-> scene_token,
                            sampling_rate |-> sampling_rate,
                            total_duration |-> total_duration,
                            show_history |-> show_history,
                            history_fade_steps |-> history_fade_steps,
                            sampling_times |->
                                SamplingTimesFrom(0, total_duration,
                                                  TicksPerSecond \div sampling_rate),
                            scene_frames |-> frames,
                            i |-> 1,
                            frame_predictions |-> <<>>,
                            frame_metadata |-> <<>>]
               /\ pc' = "sliding_loop"
               /\ UNCHANGED outcome
          ELSE /\ frame' = [op |-> "create_sliding_window_gif"]
               /\ outcome' = Raised("create_sliding_window_gif", fails_at)
               /\ pc' = "app_returned"
    /\ UNCHANGED <<sync_vars, environ, config_arg, config, inference_engine,
                   data_manager, visualizer, load_model_calls, predicted>>

\* mutant: the metadata of a sampling time is recorded before its frame
\* data is looked up
frame_metadata_RecordedFirst(frame_metadata, kept, sample_time, i) ==
    Append(frame_metadata, [sample_time |-> sample_time, frame_index |-> i])

\* lines 393-397: the metadata entry follows the prediction entry, inside
\* the try block
frame_metadata_after(frame_metadata, kept, sample_time, i) ==
    IF kept
    THEN Append(frame_metadata, [sample_time |-> sample_time, frame_index |-> i])
    ELSE frame_metadata

\* lines 367-401, one sampling time: a time without frame data is passed
\* over, and so is one whose prediction raises
SlidingStep ==
    /\ pc = "sliding_loop"
    /\ frame.i <= Len(frame.sampling_times)
    /\ \E input_ok, predict_ok \in BOOLEAN :
          LET sample_time == frame.sampling_times[frame.i]
              frame_data == _get_frame_at_time(frame.scene_frames, sample_time, input_ok)
              reached == frame_data # NoneValue
              kept == reached /\ ~predict_trajectory(inference_engine, predict_ok).raised
          IN /\ frame' =
                    [frame EXCEPT
                        !.i = @ + 1,
                        !.frame_predictions =
                            IF kept
                            THEN Append(@, [time |-> sample_time,
                                            actual_time |-> frame_data.actual_time])
                            ELSE @,
                        !.frame_metadata =
                            frame_metadata_after(@, kept, sample_time, frame.i - 1)]
             /\ predicted' = (predicted \/ reached)
             /\ inference_engine' = EngineAfter(reached)
             /\ load_model_calls' = load_model_calls + LoadsAfter(reached)
    /\ UNCHANGED <<pc, sync_vars, environ, config_arg, config, data_manager,
                   visualizer, outcome>>

\* lines 405-442: the reference trajectories, the animation, the result
SlidingEnd ==
    /\ pc = "sliding_loop"
    /\ frame.i > Len(frame.sampling_times)
    /\ \E fails_at \in SlidingStages, front_camera \in FrontCameras,
          reference_trajectories \in SlidingReferences :
          LET gif == create_sliding_window_visualization(
                         frame.frame_predictions, reference_trajectories,
                         frame.show_history,
                         frame.history_fade_steps, fails_at, front_camera)
          IN /\ outcome' =
                    IF fails_at = "get_all_trajectories"
                    THEN Raised("create_sliding_window_gif", fails_at)
                    ELSE IF gif.raised_at # "none"
                    THEN Raised("create_sliding_window_gif", gif.raised_at)
                    ELSE IF fails_at = "stat"
                    THEN Raised("create_sliding_window_gif", fails_at)
                    ELSE Returned("create_sliding_window_gif",
                                  [scene_token |-> frame.scene_token,
                                   sampling_rate |-> frame.sampling_rate,
                                   total_duration |-> frame.total_duration,
                                   total_frames |-> Len(gif.frame_predictions),
                                   actual_sampling_times |-> frame.sampling_times,
                                   show_history |-> frame.show_history,
                                   history_fade_steps |-> frame.history_fade_steps,
                                   frame_times |->
                                       [k \in DOMAIN gif.frame_predictions |->
                                           gif.frame_predictions[k].time],
                                   frames |-> gif.frames,
                                   references |-> gif.references,
                                   history |-> gif.history])
             /\ frame' = [op |-> "create_sliding_window_gif",
                          failure |-> fails_at,
                          front_camera |-> front_camera,
                          show_history |-> frame.show_history,
                          history_fade_steps |-> frame.history_fade_steps,
                          frame_predictions |-> Len(frame.frame_predictions),
                          reference_trajectories |->
                              IF fails_at = "get_all_trajectories" THEN [n \in {} |-> {5, 10}]
                              ELSE reference_trajectories,
                          history_passed |->
                              IF fails_at = "get_all_trajectories" THEN <<>>
                              ELSE gif.passed,
                          predictions_before |-> frame.frame_predictions,
                          predictions_after |->
                              IF fails_at = "get_all_trajectories"
                              THEN frame.frame_predictions
                              ELSE gif.frame_predictions]
    /\ pc' = "app_returned"
    /\ UNCHANGED <<sync_vars, environ, config_arg, config, inference_engine,
                   data_manager, visualizer, load_model_calls, predicted>>

-----------------------------------------------------------------------------
(* TrajectoryPredictionApp.get_app_info *)

\* the tokens of the scene loader, or none without a scene loader
AvailableScenes(dm) ==
    IF dm.scene_loader = NoneValue THEN {} ELSE dm.scene_loader.tokens

\* what get_scene_statistics returns: a dictionary that may lack the key
\* total_scenes, whose count need not be the number of tokens of the scene
\* loader; None stands for a call that raises
SceneStatistics ==
    {NoneValue, Dict(<<>>, <<>>)}
    \cup {Dict(<< <<Lit("total_scenes")>> >>, <<Num(n)>>) : n \in {0, 2}}

\* lines 639-650, data_info: total_scenes and its alias num_scenes are both
\* read from the key total_scenes
data_info_AliasCountsTokens(data_stats, available_scenes) ==
    [total_scenes |-> Get(data_stats, "total_scenes", Num(0)).v,
     num_scenes |-> Cardinality(available_scenes),
     available_scenes |-> available_scenes]

data_info(data_stats, available_scenes) ==
    [total_scenes |-> Get(data_stats, "total_scenes", Num(0)).v,
     num_scenes |-> Get(data_stats, "total_scenes", Num(0)).v,
     available_scenes |-> available_scenes]

\* get_app_info: config["model"]["type"] and config["data"]["navsim_log_path"]
\* are read without a default (the data split's name and the statistics
\* copied unchanged into data are left out)
get_app_info(cfg, engine, dm, data_stats) ==
    IF data_stats = NoneValue
    THEN Raised("get_app_info", "get_scene_statistics")
    ELSE IF ~HasKey(Item(cfg, "model"), "type")
    THEN Raised("get_app_info", "config[model][type]")
    ELSE IF ~HasKey(Item(cfg, "data"), "navsim_log_path")
    THEN Raised("get_app_info", "config[data][navsim_log_path]")
    ELSE Returned("get_app_info",
                  [model |-> get_model_info(engine),
                   data |-> data_info(data_stats, AvailableScenes(dm)),
                   config |-> [model_type |-> Item(Item(cfg, "model"), "type"),
                               has_checkpoint |->
                                   Get(Item(cfg, "model"), "checkpoint_path", NoneValue)
                                       # NoneValue],
                   status |-> "ready"])

GetAppInfo ==
    /\ pc = "app_ready"
    /\ \E data_stats \in SceneStatistics :
          /\ outcome' = get_app_info(config, inference_engine, data_manager, data_stats)
          /\ frame' = [op |-> "get_app_info", data_stats |-> data_stats]
    /\ pc' = "app_returned"
    /\ UNCHANGED <<sync_vars, environ, config_arg, config, inference_engine,
                   data_manager, visualizer, load_model_calls, predicted>>

-----------------------------------------------------------------------------
(* The attributes of a TrajectoryPredictionApp object *)

\* the methods the class defines (lines 28-721)
AppMethods ==
    {"__init__", "_setup_logging", "_load_config", "_expand_env_vars",
     "_initialize_components", "predict_single_scene", "create_trajectory_gif",
     "create_sliding_window_gif", "_get_frame_at_time", "predict_batch_scenes",
     "_create_batch_summary", "get_random_scenes", "get_app_info",
     "create_demo_visualization"}

\* the fields the constructor assigns (lines 36-46)
AppFields == {"config", "inference_engine", "data_manager", "visualizer"}

\* names a caller looks up on the object
LookedUpNames == {"initialize", "_initialized", "get_app_info", "config"}

\* getattr(app, name): the class has no __getattr__, so a name that is
\* neither a method nor a field raises AttributeError
getattr(name) ==
    IF name \in AppMethods \cup AppFields
    THEN Returned("getattr", [name |-> name])
    ELSE Raised("getattr", "AttributeError")

GetAttr ==
    /\ pc = "app_ready"
    /\ \E name \in LookedUpNames :
          /\ outcome' = getattr(name)
          /\ frame' = [op |-> "getattr", name |-> name]
    /\ pc' = "app_returned"
    /\ UNCHANGED <<sync_vars, environ, config_arg, config, inference_engine,
                   data_manager, visualizer, load_model_calls, predicted>>

-----------------------------------------------------------------------------
(* TrajectoryPredictionApp.create_demo_visualization *)

\* line 681: the time windows shown when none are given (1.5 s, 3 s, 6 s)
DefaultDemoWindows == <<<<0, 15>>, <<0, 30>>, <<0, 60>>>>

DemoWindowLists == {NoneValue, List(<<<<0, 10>>>>)}

DemoSceneCounts == 0..3

\* get_random_scenes: the request is cut to the scenes there are, and that
\* many different scenes are drawn in any order
get_random_scenes(dm, num_scenes) ==
    LET available_scenes == AvailableScenes(dm)
        n == Min2(num_scenes, Cardinality(available_scenes))
    IN {sample \in [1..n -> available_scenes] :
            \A a, b \in 1..n : a # b => sample[a] # sample[b]}

DemoBegin ==
    /\ pc = "app_ready"
    /\ \E num_scenes \in DemoSceneCounts, time_windows \in DemoWindowLists,
          mkdir_ok \in BOOLEAN :
          \E random_scenes \in get_random_scenes(data_manager, num_scenes) :
             IF mkdir_ok
             THEN /\ frame' = [op |-> "create_demo_visualization",
                               random_scenes |-> random_scenes,
                               time_windows |-> IF time_windows = NoneValue
                                                THEN DefaultDemoWindows
                                                ELSE time_windows.items,
                               i |-> 1,
                               j |-> 1,
                               demo_results |-> <<>>]
                  /\ pc' = "demo_loop"
                  /\ UNCHANGED outcome
             ELSE /\ frame' = [op |-> "create_demo_visualization"]
                  /\ outcome' = Raised("create_demo_visualization", "mkdir")
                  /\ pc' = "app_returned"
    /\ UNCHANGED <<sync_vars, environ, config_arg, config, inference_engine,
                   data_manager, visualizer, load_model_calls, predicted>>

\* lines 694-718, one scene and one time window: the scene is predicted and
\* its picture renamed; an exception leaves the pair out of the results
DemoStep ==
    /\ pc = "demo_loop"
    /\ frame.i <= Len(frame.random_scenes)
    /\ \E env \in LoopSceneEnvs, rename_ok \in BOOLEAN :
          LET scene_token == frame.random_scenes[frame.i]
              time_window == frame.time_windows[frame.j]
              call == predict_single_scene(inference_engine, scene_token,
                                           time_window, TRUE, env)
              failed == call.status = "raised" \/ ~rename_ok
              last == frame.j = Len(frame.time_windows)
          IN /\ frame' =
                    [frame EXCEPT
                        !.i = IF last THEN @ + 1 ELSE @,
                        !.j = IF last THEN 1 ELSE @ + 1,
                        !.demo_results =
                            IF failed THEN @
                            ELSE Append(@, [scene_index |-> frame.i,
                                            scene_token |-> scene_token,
                                            time_window |-> time_window])]
             /\ predicted' = (predicted \/ ReachesPrediction(env))
             /\ inference_engine' = EngineAfter(ReachesPrediction(env))
             /\ load_model_calls' = load_model_calls + LoadsAfter(ReachesPrediction(env))
    /\ UNCHANGED <<pc, sync_vars, environ, config_arg, config, data_manager,
                   visualizer, outcome>>

DemoEnd ==
    /\ pc = "demo_loop"
    /\ frame.i > Len(frame.random_scenes)
    /\ outcome' = Returned("create_demo_visualization",
                           [results |-> frame.demo_results])
    /\ frame' = [op |-> "create_demo_visualization"]
    /\ pc' = "app_returned"
    /\ UNCHANGED <<sync_vars, environ, config_arg, config, inference_engine,
                   data_manager, visualizer, load_model_calls, predicted>>

-----------------------------------------------------------------------------
(* Specification of the synchronizer: the inputs are drawn from the        *)
(* bounded families and the action applies the function                    *)

SyncSources == {"ground_truth", "prediction"}

NoTrajectories == [n \in {} |-> <<>>]

\* the application object before its constructor has run
AppNotConstructed ==
    /\ config = NoneValue
    /\ inference_engine = NoneValue
    /\ data_manager = NoneValue
    /\ visualizer = NoneValue
    /\ load_model_calls = 0
    /\ predicted = FALSE
    /\ frame = NoFrame
    /\ outcome = NoOutcome

NoEnviron == [n \in {} |-> ""]

\* no application: the synchronizer alone
NoApp ==
    /\ environ = NoEnviron
    /\ config_arg = ConfigDict(NoneValue)
    /\ AppNotConstructed

InitSync ==
    /\ pc = "sync_request"
    /\ synchronized = NoTrajectories
    /\ NoApp
    /\ \/ /\ trajectories \in [SyncSources -> RawTrajectories]
          /\ time_horizon \in 0..MaxHorizonTicks
          /\ dt \in 1..MaxDt
       \/ /\ trajectories = ExampleTrajectories
          /\ time_horizon = ExampleHorizon
          /\ dt = ExampleDt

Synchronize ==
    /\ pc = "sync_request"
    /\ synchronized' = synchronize_trajectories(trajectories, time_horizon, dt)
    /\ pc' = "sync_done"
    /\ UNCHANGED <<trajectories, time_horizon, dt, app_vars>>

NextSync == Synchronize

SpecSync == InitSync /\ [][NextSync]_vars

-----------------------------------------------------------------------------
(* Specification of the constructor: the argument and the environment are  *)
(* drawn from bounded families                                             *)

Key(text) == <<Lit(text)>>

ModelSection(type, checkpoint) ==
    Dict(<<Key("type"), Key("checkpoint_path"), Key("lr")>>,
         <<type, checkpoint, Num(6)>>)

DataSection(root) ==
    Dict(<<Key("navsim_log_path"), Key("sensor_blobs_path"), Key("cache_path")>>,
         <<Str(<<root, Lit("/navsim_logs/test")>>),
           Str(<<root, Lit("/sensor_blobs/test")>>),
           Str(<<Var("NAVSIM_EXP_ROOT"), Lit("/metric_cache")>>)>>)

\* lists and dictionaries nested in one another, strings with references at
\* every depth, and a key that itself holds a reference
VisualizationSection ==
    Dict(<<Key("time_windows"), Key("save_formats"), Key("figure_sizes"),
           <<Var("OPENSCENE_DATA_ROOT"), Lit("_outputs")>> >>,
         <<List(<<Num(1), Num(3), Num(6)>>),
           List(<<Text("png"), Str(<<Var("NAVSIM_EXP_ROOT"), Lit(".gif")>>)>>),
           Dict(<<Key("comprehensive"), Key("simple_bev")>>,
                <<List(<<Num(20), Num(12)>>), List(<<Num(10), Num(8)>>)>>),
           List(<<Dict(<<Key("dir")>>,
                       <<List(<<Str(<<Var("OPENSCENE_DATA_ROOT")>>),
                                Str(<<Var("UNSET_VARIABLE")>>), NoneValue>>)>>)>>)>>)

Document(type, checkpoint, root, with_viz) ==
    IF with_viz
    THEN Dict(<<Key("model"), Key("data"), Key("visualization")>>,
              <<ModelSection(type, checkpoint), DataSection(root), VisualizationSection>>)
    ELSE Dict(<<Key("model"), Key("data")>>,
              <<ModelSection(type, checkpoint), DataSection(root)>>)

ModelTypes == {Text("diffusiondrive"), Text("transfuser"), Text("unknown")}

CheckpointPaths == {NoneValue, Text(""), Str(<<Var("NAVSIM_EXP_ROOT"), Lit("/model.ckpt")>>)}

DataRoots == {Var("OPENSCENE_DATA_ROOT"), Lit("/data")}

ConfigDocuments ==
    {Document(type, checkpoint, root, with_viz) :
        type \in ModelTypes, checkpoint \in CheckpointPaths,
        root \in DataRoots, with_viz \in BOOLEAN}
    \cup {NoneValue,
          Dict(<<>>, <<>>),
          Dict(<<Key("model")>>, <<ModelSection(Text("diffusiondrive"), NoneValue)>>)}

ConfigArgs ==
    {ConfigDict(d) : d \in ConfigDocuments}
    \cup {ConfigPath(TRUE, d) : d \in ConfigDocuments}
    \cup {ConfigPath(FALSE, NoneValue)}

EnvironValue(name) == IF name = "OPENSCENE_DATA_ROOT" THEN "/data" ELSE "/exp"

Environs ==
    {[n \in names |-> EnvironValue(n)] :
        names \in SUBSET {"OPENSCENE_DATA_ROOT", "NAVSIM_EXP_ROOT"}}

\* no synchronizer request
NoSync ==
    /\ trajectories = NoTrajectories
    /\ time_horizon = 0
    /\ dt = 1
    /\ synchronized = NoTrajectories

InitConfig ==
    /\ pc = "app_new"
    /\ NoSync
    /\ environ \in Environs
    /\ config_arg \in ConfigArgs
    /\ AppNotConstructed

NextConfig == Construct

SpecConfig == InitConfig /\ [][NextConfig]_vars

-----------------------------------------------------------------------------
(* Specification of the application: construction, then any sequence of    *)
(* operations                                                              *)

AppConfigArgs ==
    {ConfigPath(TRUE, Document(Text("diffusiondrive"),
                               Str(<<Var("NAVSIM_EXP_ROOT"), Lit("/model.ckpt")>>),
                               Var("OPENSCENE_DATA_ROOT"), TRUE)),
     ConfigDict(Document(Text("unknown"), NoneValue, Lit("/data"), FALSE)),
     ConfigDict(Dict(<<Key("model"), Key("data")>>,
                     <<Dict(<<Key("checkpoint_path")>>, <<NoneValue>>),
                       DataSection(Lit("/data"))>>))}

AppEnviron == [n \in {"OPENSCENE_DATA_ROOT", "NAVSIM_EXP_ROOT"} |-> EnvironValue(n)]

InitApp ==
    /\ pc = "app_new"
    /\ NoSync
    /\ environ = AppEnviron
    /\ config_arg \in AppConfigArgs
    /\ AppNotConstructed

NextApp ==
    \/ Construct
    \/ PredictSingleScene
    \/ BatchBegin
    \/ BatchStep
    \/ BatchEnd
    \/ CreateTrajectoryGif
    \/ SlidingBegin
    \/ SlidingStep
    \/ SlidingEnd
    \/ GetAppInfo
    \/ GetAttr
    \/ DemoBegin
    \/ DemoStep
    \/ DemoEnd
    \/ ReturnToCaller

SpecApp == InitApp /\ [][NextApp]_vars

-----------------------------------------------------------------------------
(* Specification of the time lines: the sampling times of                  *)
(* create_sliding_window_gif and the time windows of create_trajectory_gif *)
(* as the loops build them from floats.  The arguments are decimal         *)
(* literals: durations, window sizes and step sizes in tenths of a second, *)
(* sampling rates in whole Hz                                              *)

\* the float a literal of so many tenths of a second denotes
Seconds(tenths) == FloatDiv(tenths, TicksPerSecond)

TimelineRates == {1, 2, 4, 5, 10}

TimelineDurations == {0, 5, 10, 15, 20, 30}

TimelineTotals == {10, 20, 40, 60}

TimelineWindowSizes == {5, 15, 30, 50}

TimelineStepSizes == {1, 3, 5, 10}

\* app.py lines 350-355: current_time starts at 0.0 and grows by the sampling
\* interval while it does not pass the total duration
RECURSIVE FloatSamplingTimesFrom(_, _, _)
FloatSamplingTimesFrom(current_time, total_duration, sampling_interval) ==
    IF FloatLe(current_time, total_duration)
    THEN <<current_time>>
         \o FloatSamplingTimesFrom(FloatAdd(current_time, sampling_interval),
                                   total_duration, sampling_interval)
    ELSE <<>>

\* app.py lines 273-277: current_start starts at 0.0 and grows by the step
\* size while the window still ends inside the total duration
RECURSIVE FloatTimeWindowsFrom(_, _, _, _)
FloatTimeWindowsFrom(current_start, total_duration, window_size, step_size) ==
    IF FloatLe(FloatAdd(current_start, window_size), total_duration)
    THEN <<<<current_start, FloatAdd(current_start, window_size)>>>>
         \o FloatTimeWindowsFrom(FloatAdd(current_start, step_size),
                                 total_duration, window_size, step_size)
    ELSE <<>>

SamplingRequests ==
    [op : {"create_sliding_window_gif"}, sampling_rate : TimelineRates,
     total_duration : TimelineDurations]

WindowRequests ==
    [op : {"create_trajectory_gif"}, total_duration : TimelineTotals,
     window_size : TimelineWindowSizes, step_size : TimelineStepSizes]

InitTimeline ==
    /\ pc = "timeline_request"
    /\ NoSync
    /\ environ = NoEnviron
    /\ config_arg = ConfigDict(NoneValue)
    /\ config = NoneValue
    /\ inference_engine = NoneValue
    /\ data_manager = NoneValue
    /\ visualizer = NoneValue
    /\ load_model_calls = 0
    /\ predicted = FALSE
    /\ frame \in SamplingRequests \cup WindowRequests
    /\ outcome = NoOutcome

\* create_sliding_window_gif, lines 349-355 and 428-429: the sampling times,
\* and the frame count when every sampling time yields a frame
SampleTimeline ==
    /\ pc = "timeline_request"
    /\ frame.op = "create_sliding_window_gif"
    /\ LET sampling_interval == FloatDiv(1, frame.sampling_rate)
           sampling_times ==
               FloatSamplingTimesFrom(FloatZero, Seconds(frame.total_duration),
                                      sampling_interval)
       IN outcome' = Returned("create_sliding_window_gif",
                              [total_frames |-> Len(sampling_times),
                               actual_sampling_times |-> sampling_times])
    /\ pc' = "timeline_done"
    /\ UNCHANGED <<sync_vars, environ, config_arg, config, inference_engine,
                   data_manager, visualizer, load_model_calls, predicted, frame>>

\* create_trajectory_gif, lines 272-277 and 300-304: the time windows and
\* their count
WindowTimeline ==
    /\ pc = "timeline_request"
    /\ frame.op = "create_trajectory_gif"
    /\ LET time_windows ==
               FloatTimeWindowsFrom(FloatZero, Seconds(frame.total_duration),
                                    Seconds(frame.window_size),
                                    Seconds(frame.step_size))
       IN outcome' = Returned("create_trajectory_gif",
                              [time_windows |-> time_windows,
                               total_frames |-> Len(time_windows)])
    /\ pc' = "timeline_done"
    /\ UNCHANGED <<sync_vars, environ, config_arg, config, inference_engine,
                   data_manager, visualizer, load_model_calls, predicted, frame>>

NextTimeline == SampleTimeline \/ WindowTimeline

SpecTimeline == InitTimeline /\ [][NextTimeline]_vars

-----------------------------------------------------------------------------
(* Specification of the two timeline loops, one iteration per step: the    *)
(* state is the loop variable and the list built so far                    *)

MaxIterations == 24     \* iterations of one loop that are followed

\* a float with its sign; the magnitude is a float of the layer above
Signed(neg, mag) == [neg |-> neg, mag |-> mag]

\* a + b, rounded as the sum of two floats is
SignedAdd(a, b) ==
    IF a.neg = b.neg THEN Signed(a.neg, FloatAdd(a.mag, b.mag))
    ELSE IF FloatLe(b.mag, a.mag) THEN Signed(a.neg, FloatSub(a.mag, b.mag))
    ELSE Signed(b.neg, FloatSub(b.mag, a.mag))

\* a <= b; the two zeros compare equal
SignedLe(a, b) ==
    IF a.neg /\ ~b.neg THEN TRUE
    ELSE IF ~a.neg /\ b.neg THEN a.mag = FloatZero /\ b.mag = FloatZero
    ELSE IF a.neg THEN FloatLe(b.mag, a.mag)
    ELSE FloatLe(a.mag, b.mag)

SignedZero == Signed(FALSE, FloatZero)

\* x > 0
Positive(x) == ~x.neg /\ x.mag # FloatZero

\* the float of a whole number of tenths of a second, of either sign
SignedSeconds(tenths) ==
    IF tenths < 0 THEN Signed(TRUE, Seconds(0 - tenths))
    ELSE Signed(FALSE, Seconds(tenths))

\* sampling rates in Hz: whole numbers, and the float infinity, which is a
\* float greater than 0
Infinity == [kind |-> "inf", value |-> 0]

Hz(n) == [kind |-> "finite", value |-> n]

LoopRates == {Hz(1), Hz(2), Hz(10), Infinity}

LoopDurations == {0, 10, 20}

LoopWindowSizes == {5, 15, 30}

LoopStepSizes == {-5, 0, 1, 3, 5}

\* line 350: sampling_interval = 1.0 / sampling_rate; 1.0 / inf is 0.0
sampling_interval(sampling_rate) ==
    IF sampling_rate.kind = "inf" THEN SignedZero
    ELSE Signed(FALSE, FloatDiv(1, sampling_rate.value))

\* lines 272-273 and 351-352: the state on entry to either loop
InitLoops ==
    /\ NoSync
    /\ environ = NoEnviron
    /\ config_arg = ConfigDict(NoneValue)
    /\ config = NoneValue
    /\ inference_engine = NoneValue
    /\ data_manager = NoneValue
    /\ visualizer = NoneValue
    /\ load_model_calls = 0
    /\ predicted = FALSE
    /\ outcome = NoOutcome
    /\ \/ /\ pc = "window_loop"
          /\ \E total_duration \in LoopDurations, window_size \in LoopWindowSizes,
                step_size \in LoopStepSizes :
                frame = [op |-> "create_trajectory_gif",
                         total_duration |-> SignedSeconds(total_duration),
                         window_size |-> SignedSeconds(window_size),
                         step_size |-> SignedSeconds(step_size),
                         current_start |-> SignedZero,
                         time_windows |-> <<>>]
       \/ /\ pc = "sampling_loop"
          /\ \E total_duration \in LoopDurations, sampling_rate \in LoopRates :
                frame = [op |-> "create_sliding_window_gif",
                         total_duration |-> SignedSeconds(total_duration),
                         sampling_rate |-> sampling_rate,
                         sampling_interval |-> sampling_interval(sampling_rate),
                         current_time |-> SignedZero,
                         sampling_times |-> <<>>]

\* line 274: while current_start + window_size <= total_duration
WindowLoopGuard ==
    SignedLe(SignedAdd(frame.current_start, frame.window_size), frame.total_duration)

\* lines 275-277: one pass of the window loop
WindowLoopStep ==
    /\ pc = "window_loop"
    /\ WindowLoopGuard
    /\ Len(frame.time_windows) < MaxIterations
    /\ frame' = [frame EXCEPT
                   !.time_windows =
                       Append(@, <<frame.current_start,
                                   SignedAdd(frame.current_start, frame.window_size)>>),
                   !.current_start = SignedAdd(@, frame.step_size)]
    /\ UNCHANGED <<pc, sync_vars, environ, config_arg, config, inference_engine,
                   data_manager, visualizer, load_model_calls, predicted, outcome>>

\* line 274: the condition is false and the loop is left
WindowLoopExit ==
    /\ pc = "window_loop"
    /\ ~WindowLoopGuard
    /\ pc' = "loop_done"
    /\ UNCHANGED <<sync_vars, app_vars>>

\* line 353: while current_time <= total_duration
SamplingLoopGuard == SignedLe(frame.current_time, frame.total_duration)

\* lines 354-355: one pass of the sampling loop
SamplingLoopStep ==
    /\ pc = "sampling_loop"
    /\ SamplingLoopGuard
    /\ Len(frame.sampling_times) < MaxIterations
    /\ frame' = [frame EXCEPT
                   !.sampling_times = Append(@, frame.current_time),
                   !.current_time = SignedAdd(@, frame.sampling_interval)]
    /\ UNCHANGED <<pc, sync_vars, environ, config_arg, config, inference_engine,
                   data_manager, visualizer, load_model_calls, predicted, outcome>>

\* line 353: the condition is false and the loop is left
SamplingLoopExit ==
    /\ pc = "sampling_loop"
    /\ ~SamplingLoopGuard
    /\ pc' = "loop_done"
    /\ UNCHANGED <<sync_vars, app_vars>>

NextLoops == WindowLoopStep \/ WindowLoopExit \/ SamplingLoopStep \/ SamplingLoopExit

\* the interpreter runs the loop on: a pass or an exit that is possible is
\* eventually taken
SpecLoops == InitLoops /\ [][NextLoops]_vars /\ WF_vars(NextLoops)

-----------------------------------------------------------------------------
(* Specification of the frame lookup of the sliding window on its own, on  *)
(* floats: a scene's frames, a target time, and where the lookup fails     *)

MaxFrames == 3      \* frames of a scene

MicrosPerSecond == 1000000

FrameTimestamps == {0, 400000, 500000, 1000000}

FrameLists == UNION {[1..n -> FrameTimestamps] : n \in 0..MaxFrames}

\* target times, in tenths of a second
TargetTimes == {0, 2, 5, 7, 8, 13}

\* what can raise inside the try block: reading scene.frames, reading a
\* frame's timestamp, get_agent_input
LookupStages == {"none", "frames", "timestamp", "get_agent_input"}

\* line 461: frame.timestamp / 1e6
frame_time(timestamp) == FloatDiv(timestamp, MicrosPerSecond)

\* line 462: abs(frame_time - target_time)
time_diff(timestamp, target_time) == FloatAbsDiff(frame_time(timestamp), target_time)

\* mutant: a later frame replaces an equally close earlier one
RECURSIVE best_frame_LastOnTie(_, _, _, _)
best_frame_LastOnTie(frames, target_time, k, best) ==
    IF k > Len(frames) THEN best
    ELSE IF best = 0
            \/ FloatLe(time_diff(frames[k], target_time),
                       time_diff(frames[best], target_time))
    THEN best_frame_LastOnTie(frames, target_time, k + 1, k)
    ELSE best_frame_LastOnTie(frames, target_time, k + 1, best)

\* lines 457-466: the loop over scene.frames; best is the index of
\* best_frame, 0 for None, whose best_time_diff is infinity
RECURSIVE best_frame(_, _, _, _)
best_frame(frames, target_time, k, best) ==
    IF k > Len(frames) THEN best
    ELSE IF best = 0
            \/ FloatLt(time_diff(frames[k], target_time),
                       time_diff(frames[best], target_time))
    THEN best_frame(frames, target_time, k + 1, k)
    ELSE best_frame(frames, target_time, k + 1, best)

\* lines 456-479, the body of the try block: the value it returns, or the
\* place where it raises
FrameLookupBody(frames, target_time, fails_at) ==
    LET best == best_frame(frames, target_time, 1, 0)
    IN IF fails_at = "frames" THEN [raised_at |-> "frames", value |-> NoneValue]
       ELSE IF fails_at = "timestamp" /\ frames # <<>>
       THEN [raised_at |-> "timestamp", value |-> NoneValue]
       ELSE IF best = 0 THEN [raised_at |-> "none", value |-> NoneValue]
       ELSE IF fails_at = "get_agent_input"
       THEN [raised_at |-> "get_agent_input", value |-> NoneValue]
       ELSE [raised_at |-> "none",
             value |-> [kind |-> "frame_data", frame |-> best,
                        actual_time |-> frame_time(frames[best]),
                        time_diff |-> time_diff(frames[best], target_time)]]

\* lines 455-483: try the body; except Exception: log and return None
FrameAtTime(frames, target_time, fails_at) ==
    LET body == FrameLookupBody(frames, target_time, fails_at)
    IN IF body.raised_at # "none"
       THEN Returned("_get_frame_at_time", NoneValue)
       ELSE Returned("_get_frame_at_time", body.value)

InitFrames ==
    /\ pc = "frame_request"
    /\ NoSync
    /\ environ = NoEnviron
    /\ config_arg = ConfigDict(NoneValue)
    /\ config = NoneValue
    /\ inference_engine = NoneValue
    /\ data_manager = NoneValue
    /\ visualizer = NoneValue
    /\ load_model_calls = 0
    /\ predicted = FALSE
    /\ outcome = NoOutcome
    /\ \E frames \in FrameLists, target_time \in TargetTimes, fails_at \in LookupStages :
          frame = [op |-> "_get_frame_at_time", frames |-> frames,
                   target_time |-> Seconds(target_time), fails_at |-> fails_at]

\* _get_frame_at_time(scene, target_time)
GetFrameAtTime ==
    /\ pc = "frame_request"
    /\ outcome' = FrameAtTime(frame.frames, frame.target_time, frame.fails_at)
    /\ pc' = "frame_done"
    /\ UNCHANGED <<sync_vars, environ, config_arg, config, inference_engine,
                   data_manager, visualizer, load_model_calls, predicted, frame>>

NextFrames == GetFrameAtTime

SpecFrames == InitFrames /\ [][NextFrames]_vars

-----------------------------------------------------------------------------
(* Specification of the inference engine on its own: constructed, not yet  *)
(* loaded, then any sequence of its operations                             *)

MaxLoads == 2       \* load_model() calls per engine

\* the message of the ValueError raised without a model
NotLoaded == "ValueError: Model not loaded. Call load_model() first."

EngineConfigs ==
    {ModelSection(type, checkpoint) :
        type \in ModelTypes, checkpoint \in CheckpointPaths}
    \cup {Dict(<<>>, <<>>)}

\* mutant: the agent is used without the test for None
get_sensor_config_Unguarded(engine, ok) ==
    IF engine.agent = NoneValue
    THEN Raised("get_sensor_config", "AttributeError")
    ELSE IF ok
    THEN Returned("get_sensor_config", [family |-> engine.agent.family])
    ELSE Raised("get_sensor_config", "agent.get_sensor_config")

\* get_sensor_config: the agent's answer, or the ValueError without an agent
\* (ok = FALSE: the agent's method raises)
get_sensor_config(engine, ok) ==
    IF engine.agent = NoneValue
    THEN Raised("get_sensor_config", NotLoaded)
    ELSE IF ok
    THEN Returned("get_sensor_config", [family |-> engine.agent.family])
    ELSE Raised("get_sensor_config", "agent.get_sensor_config")

get_feature_builders(engine, ok) ==
    IF engine.agent = NoneValue
    THEN Raised("get_feature_builders", NotLoaded)
    ELSE IF ok
    THEN Returned("get_feature_builders", [family |-> engine.agent.family])
    ELSE Raised("get_feature_builders", "agent.get_feature_builders")

InitEngine ==
    /\ pc = "engine_ready"
    /\ NoSync
    /\ environ = NoEnviron
    /\ config_arg = ConfigDict(NoneValue)
    /\ config = NoneValue
    /\ \E model_config \in EngineConfigs, cuda \in BOOLEAN :
          inference_engine = NewEngine(model_config, cuda)
    /\ data_manager = NoneValue
    /\ visualizer = NoneValue
    /\ load_model_calls = 0
    /\ predicted = FALSE
    /\ frame = NoFrame
    /\ outcome = NoOutcome

EngineLoadModel ==
    /\ pc = "engine_ready"
    /\ load_model_calls < MaxLoads
    /\ \E agent_ok, weights_ok \in BOOLEAN :
          LET call == load_model(inference_engine, agent_ok, weights_ok)
          IN /\ inference_engine' = call.engine
             /\ outcome' = IF call.raised
                           THEN Raised("load_model", "load_model")
                           ELSE Returned("load_model", NoneValue)
    /\ load_model_calls' = load_model_calls + 1
    /\ frame' = [op |-> "load_model", engine |-> inference_engine]
    /\ pc' = "engine_returned"
    /\ UNCHANGED <<sync_vars, environ, config_arg, config, data_manager,
                   visualizer, predicted>>

EnginePredictTrajectory ==
    /\ pc = "engine_ready"
    /\ \E ok \in BOOLEAN :
          LET call == predict_trajectory(inference_engine, ok)
          IN /\ inference_engine' = call.engine
             /\ load_model_calls' = load_model_calls + call.loads
             /\ outcome' =
                    IF inference_engine.agent = NoneValue
                    THEN Raised("predict_trajectory", NotLoaded)
                    ELSE IF call.raised
                    THEN Raised("predict_trajectory", "compute_trajectory")
                    ELSE Returned("predict_trajectory",
                                  [model_type |-> inference_engine.model_type])
    /\ predicted' = TRUE
    /\ frame' = [op |-> "predict_trajectory", engine |-> inference_engine]
    /\ pc' = "engine_returned"
    /\ UNCHANGED <<sync_vars, environ, config_arg, config, data_manager, visualizer>>

EngineGetSensorConfig ==
    /\ pc = "engine_ready"
    /\ \E ok \in BOOLEAN : outcome' = get_sensor_config(inference_engine, ok)
    /\ frame' = [op |-> "get_sensor_config", engine |-> inference_engine]
    /\ pc' = "engine_returned"
    /\ UNCHANGED <<sync_vars, environ, config_arg, config, inference_engine,
                   data_manager, visualizer, load_model_calls, predicted>>

EngineGetFeatureBuilders ==
    /\ pc = "engine_ready"
    /\ \E ok \in BOOLEAN : outcome' = get_feature_builders(inference_engine, ok)
    /\ frame' = [op |-> "get_feature_builders", engine |-> inference_engine]
    /\ pc' = "engine_returned"
    /\ UNCHANGED <<sync_vars, environ, config_arg, config, inference_engine,
                   data_manager, visualizer, load_model_calls, predicted>>

EngineGetModelInfo ==
    /\ pc = "engine_ready"
    /\ outcome' = Returned("get_model_info", get_model_info(inference_engine))
    /\ frame' = [op |-> "get_model_info", engine |-> inference_engine]
    /\ pc' = "engine_returned"
    /\ UNCHANGED <<sync_vars, environ, config_arg, config, inference_engine,
                   data_manager, visualizer, load_model_calls, predicted>>

\* the caller takes the result and goes on
EngineReturn ==
    /\ pc = "engine_returned"
    /\ outcome' = NoOutcome
    /\ frame' = NoFrame
    /\ pc' = "engine_ready"
    /\ UNCHANGED <<sync_vars, environ, config_arg, config, inference_engine,
                   data_manager, visualizer, load_model_calls, predicted>>

NextEngine ==
    \/ EngineLoadModel
    \/ EnginePredictTrajectory
    \/ EngineGetSensorConfig
    \/ EngineGetFeatureBuilders
    \/ EngineGetModelInfo
    \/ EngineReturn

SpecEngine == InitEngine /\ [][NextEngine]_vars

-----------------------------------------------------------------------------
(* Specification of the renderers' opacity: a trajectory, a time window    *)
(* and the samples the camera sees are drawn, then the BEV renderer or the *)
(* camera projection is applied                                            *)

RenderTicks == 0..MaxT

RenderRequests ==
    [op : {"render"}, source : SourceNames, timestamps : SUBSET RenderTicks,
     time_window : RenderTicks \X RenderTicks, in_fov : SUBSET RenderTicks]

\* the trajectories handed to the renderer: the one source with its samples
RenderTrajectories(request) ==
    [n \in {request.source} |-> [timestamps |-> SortedSeq(request.timestamps)]]

InitRender ==
    /\ pc = "render_request"
    /\ NoSync
    /\ environ = NoEnviron
    /\ config_arg = ConfigDict(NoneValue)
    /\ config = NoneValue
    /\ inference_engine = NoneValue
    /\ data_manager = NoneValue
    /\ visualizer = NoneValue
    /\ load_model_calls = 0
    /\ predicted = FALSE
    /\ frame \in RenderRequests
    /\ outcome = NoOutcome

RenderBev ==
    /\ pc = "render_request"
    /\ outcome' = Returned("_render_bev_trajectories",
                           _render_bev_trajectories(RenderTrajectories(frame),
                                                    frame.time_window).drawn)
    /\ pc' = "render_done"
    /\ UNCHANGED <<sync_vars, environ, config_arg, config, inference_engine,
                   data_manager, visualizer, load_model_calls, predicted, frame>>

RenderCamera ==
    /\ pc = "render_request"
    /\ outcome' = Returned("_add_trajectory_projections_to_image",
                           _add_trajectory_projections_to_image(
                               RenderTrajectories(frame), frame.time_window,
                               frame.in_fov))
    /\ pc' = "render_done"
    /\ UNCHANGED <<sync_vars, environ, config_arg, config, inference_engine,
                   data_manager, visualizer, load_model_calls, predicted, frame>>

NextRender == RenderBev \/ RenderCamera

SpecRender == InitRender /\ [][NextRender]_vars

-----------------------------------------------------------------------------
(* TrajectoryVisualizer._generate_trajectory_gradient_colors, and its      *)
(* specification: a number of points is drawn and the colours are made     *)

MaxPoints == 60     \* points of a trajectory that is coloured

\* the colour stops red, orange, yellow, green, cyan, components in halves
color_stops ==
    <<<<2, 0, 0>>, <<2, 1, 0>>, <<2, 2, 0>>, <<1, 2, 0>>, <<0, 2, 2>>>>

\* mutant: the position is counted over n_points instead of n_points - 1
gradient_t_OverCount(i, n_points) == Rat(i, n_points)

\* t = i / max(1, n_points - 1)
gradient_t(i, n_points) == Rat(i, Max2(1, n_points - 1))

\* min(int(t / segment_size), len(color_stops) - 2), segment_size = 1 / 4
segment_idx(t) ==
    Min2(((Len(color_stops) - 1) * t.num) \div t.den, Len(color_stops) - 2)

\* (t - segment_idx * segment_size) / segment_size
local_t(t) ==
    Rat((Len(color_stops) - 1) * t.num - segment_idx(t) * t.den, t.den)

\* color1 * (1 - local_t) + color2 * local_t, component by component
gradient_color(t) ==
    LET color1 == color_stops[segment_idx(t) + 1]
        color2 == color_stops[segment_idx(t) + 2]
        l == local_t(t)
    IN [c \in 1..3 |->
           Rat(color1[c] * (l.den - l.num) + color2[c] * l.num, 2 * l.den)]

_generate_trajectory_gradient_colors(n_points) ==
    [k \in 1..n_points |-> gradient_color(gradient_t(k - 1, n_points))]

InitGradient ==
    /\ pc = "gradient_request"
    /\ NoSync
    /\ environ = NoEnviron
    /\ config_arg = ConfigDict(NoneValue)
    /\ config = NoneValue
    /\ inference_engine = NoneValue
    /\ data_manager = NoneValue
    /\ visualizer = NoneValue
    /\ load_model_calls = 0
    /\ predicted = FALSE
    /\ \E n_points \in 0..MaxPoints :
          frame = [op |-> "_generate_trajectory_gradient_colors",
                   n_points |-> n_points]
    /\ outcome = NoOutcome

GenerateGradientColors ==
    /\ pc = "gradient_request"
    /\ outcome' = Returned("_generate_trajectory_gradient_colors",
                           _generate_trajectory_gradient_colors(frame.n_points))
    /\ pc' = "gradient_done"
    /\ UNCHANGED <<sync_vars, environ, config_arg, config, inference_engine,
                   data_manager, visualizer, load_model_calls, predicted, frame>>

NextGradient == GenerateGradientColors

SpecGradient == InitGradient /\ [][NextGradient]_vars

-----------------------------------------------------------------------------
(* Properties of the synchronizer *)

SyncDone == pc = "sync_done"

\* the points of the target grid
IsGridPoint(g) == g >= 0 /\ g <= time_horizon /\ g % dt = 0

\* the overlap of [0, time_horizon] and the native extent of a source
OverlapStart(n) == Max2(0, trajectories[n][1].t)

OverlapEnd(n) == Min2(time_horizon, trajectories[n][Len(trajectories[n])].t)

\* C1: for every source of the output the timestamps are non-decreasing and
\* are exactly the target grid points inside the overlap of [0, time_horizon]
\* and the source's native extent: the target range is truncated to the
\* overlap, with no sample before the first or after the last native
\* timestamp, and one pose per timestamp.
C1_TimestampsSpanOverlap ==
    SyncDone =>
        \A n \in DOMAIN synchronized :
            LET out == synchronized[n]
            IN /\ \A i, j \in DOMAIN out.timestamps :
                      i < j => out.timestamps[i] <= out.timestamps[j]
               /\ Range(out.timestamps) =
                      {g \in 0..time_horizon :
                          IsGridPoint(g) /\ OverlapStart(n) <= g /\ g <= OverlapEnd(n)}
               /\ Len(out.poses) = Len(out.timestamps)
               /\ Cardinality(Range(out.timestamps)) = Len(out.timestamps)

\* a source whose extent covers neither the start nor the end of the grid
C1_Witness ==
    /\ SyncDone
    /\ \E n \in DOMAIN synchronized :
          /\ trajectories[n][1].t > 0
          /\ trajectories[n][Len(trajectories[n])].t < (time_horizon \div dt) * dt
          /\ Len(synchronized[n].timestamps) >= 2

\* C2: identity of resampling: at every output timestamp that is one of the
\* source's own native timestamps the output pose is exactly the native pose
\* (x, y, heading); in particular when the grid is the native timestamps.
C2_IdentityAtNativeTimestamps ==
    SyncDone =>
        \A n \in DOMAIN synchronized :
            \A i \in DOMAIN synchronized[n].timestamps :
                \A k \in DOMAIN trajectories[n] :
                    trajectories[n][k].t = synchronized[n].timestamps[i] =>
                        LET p == synchronized[n].poses[i]
                            s == trajectories[n][k]
                        IN /\ RatEq(p.x, Rat(s.x, 1))
                           /\ RatEq(p.y, Rat(s.y, 1))
                           /\ RatEq(p.heading, Rat(s.heading, 1))

\* a source of at least 2 samples resampled on its own timestamps
C2_Witness ==
    /\ SyncDone
    /\ \E n \in DOMAIN synchronized :
          /\ Len(trajectories[n]) >= 2
          /\ synchronized[n].timestamps =
                 [k \in DOMAIN trajectories[n] |-> trajectories[n][k].t]
          /\ TargetGrid(time_horizon, dt) = synchronized[n].timestamps

\* C3: the output holds exactly the sources with at least 2 sample points;
\* a source with fewer (one sample, or none) is omitted, and the call
\* completes for every input.
C3_FewerThanTwoPointsOmitted ==
    /\ pc = "sync_request" => ENABLED Synchronize
    /\ SyncDone =>
          /\ DOMAIN synchronized \subseteq DOMAIN trajectories
          /\ \A n \in DOMAIN trajectories :
                 (n \in DOMAIN synchronized) <=> (Len(trajectories[n]) >= 2)

\* one source of exactly one sample beside a source that is kept
C3_Witness ==
    /\ SyncDone
    /\ \E n, m \in DOMAIN trajectories :
          /\ Len(trajectories[n]) = 1
          /\ n \notin DOMAIN synchronized
          /\ m \in DOMAIN synchronized

\* v is the linear interpolation at t between (t0, v0) and (t1, v1)
IsLinearBetween(v, t, t0, v0, t1, v1) ==
    v.num * (t1 - t0) = v.den * (v0 * (t1 - t) + v1 * (t - t0))

\* C4: at every target timestamp inside a source's extent, x, y and heading
\* are each the linear interpolation between the two native samples that
\* bracket it; the example of section 8 yields the grid 0, 0.5, 1, 1.5, 2 s
\* for both sources, both present.
C4_LinearInterpolation ==
    SyncDone =>
        /\ \A n \in DOMAIN synchronized :
              \A i \in DOMAIN synchronized[n].timestamps :
                  \A k \in 1..(Len(trajectories[n]) - 1) :
                      LET t == synchronized[n].timestamps[i]
                          p == synchronized[n].poses[i]
                          a == trajectories[n][k]
                          b == trajectories[n][k + 1]
                      IN (a.t <= t /\ t <= b.t) =>
                            /\ IsLinearBetween(p.x, t, a.t, a.x, b.t, b.x)
                            /\ IsLinearBetween(p.y, t, a.t, a.y, b.t, b.y)
                            /\ IsLinearBetween(p.heading, t, a.t, a.heading,
                                               b.t, b.heading)
        /\ (trajectories = ExampleTrajectories /\ time_horizon = ExampleHorizon
                /\ dt = ExampleDt) =>
              /\ DOMAIN synchronized = {"ground_truth", "prediction"}
              /\ synchronized["ground_truth"].timestamps = <<0, 1, 2, 3, 4>>
              /\ synchronized["prediction"].timestamps = <<0, 1, 2, 3, 4>>
              \* A at 0.5 s lies halfway between its samples at 0 s and 1 s
              /\ RatEq(synchronized["ground_truth"].poses[2].x,
                       Rat(ExampleA[1].x + ExampleA[2].x, 2))

\* the example of section 8, synchronized
C4_Witness ==
    /\ SyncDone
    /\ trajectories = ExampleTrajectories
    /\ time_horizon = ExampleHorizon
    /\ dt = ExampleDt
    /\ Len(synchronized["ground_truth"].poses) = 5

\* every output timestamp of every source is a point of the one target grid
AllOnOneGrid ==
    \A n \in DOMAIN synchronized :
        \A i \in DOMAIN synchronized[n].timestamps :
            IsGridPoint(synchronized[n].timestamps[i])

-----------------------------------------------------------------------------
(* Properties of the application's operations *)

SingleSceneDone == pc = "app_returned" /\ outcome.op = "predict_single_scene"

\* C6: whatever subset of ground_truth, pdm_closed and prediction the
\* synchronized set holds (the empty one included), predict_single_scene
\* completes when the environment fails nowhere; metrics is empty unless
\* ground_truth and prediction are both present; no renderer raises, and
\* each renderer draws present sources only.
C6_AbsentSourcesHandled ==
    (SingleSceneDone /\ frame.failure = "none") =>
        /\ outcome.status = "returned"
        /\ LET v == outcome.value
               present == DOMAIN v.synchronized
               both == {"ground_truth", "prediction"} \subseteq present
           IN /\ present \subseteq v.raw
              /\ both => v.metrics.keys = MetricKeys
              /\ ~both => v.metrics = EmptyMetrics
              /\ v.figure.raised_at = "none"
              /\ ~v.figure.bev.raised
              /\ ~v.figure.camera.raised
              /\ ~v.figure.comparison.raised
              /\ ~v.figure.statistics.raised
              /\ DOMAIN v.figure.bev.drawn \subseteq present
              /\ v.figure.bev.legend \subseteq present
              /\ v.figure.camera.projected \subseteq present
              /\ v.figure.comparison.drawn \subseteq present
              /\ v.figure.statistics.details \subseteq present
              /\ v.figure.statistics.metrics = v.metrics

\* all three sources were given, each with a single point: the synchronized
\* set is empty and the call returned
C6_Witness ==
    /\ SingleSceneDone
    /\ outcome.status = "returned"
    /\ outcome.value.raw = SourceNames
    /\ DOMAIN outcome.value.synchronized = {}
    /\ outcome.value.metrics = EmptyMetrics

\* the tokens of the attempts that failed, or of those that did not, in order
TokensWhere(attempts, failed) ==
    LET chosen == SelectSeq(attempts, LAMBDA a : a.failed = failed)
    IN [k \in 1..Len(chosen) |-> chosen[k].token]

\* C7: in the loop of predict_batch_scenes the entries of the token list are
\* attempted one after the other, each once; an entry that failed is in
\* failed_scenes and nowhere else, one that did not is in results and
\* nowhere else, both lists in input order; the lengths of the two lists
\* add up to the number of entries processed; and the loop ends only when
\* every entry was attempted, whichever of them failed.
C7_SkipAndContinue ==
    pc = "batch_loop" =>
        LET processed == frame.i - 1
        IN /\ frame.i \in 1..(Len(frame.scene_tokens) + 1)
           /\ Len(frame.attempts) = processed
           /\ \A k \in 1..processed :
                 /\ frame.attempts[k].token = frame.scene_tokens[k]
                 /\ frame.attempts[k].position = k
           /\ Len(frame.results) + Len(frame.failed_scenes) = processed
           /\ [k \in 1..Len(frame.results) |-> frame.results[k].scene_token]
                 = TokensWhere(frame.attempts, FALSE)
           /\ [k \in 1..Len(frame.failed_scenes) |-> frame.failed_scenes[k].token]
                 = TokensWhere(frame.attempts, TRUE)

\* the loop is over; its first scene failed and its second did not
C7_Witness ==
    /\ pc = "batch_loop"
    /\ frame.i > Len(frame.scene_tokens)
    /\ Len(frame.scene_tokens) = 2
    /\ frame.attempts[1].failed
    /\ ~frame.attempts[2].failed
    /\ Len(frame.results) = 1
    /\ Len(frame.failed_scenes) = 1

\* C15: predict_batch_scenes applies max_scenes as an upper bound on the
\* scenes attempted: for every integer max_scenes that is not None, 0
\* included, at most max_scenes scenes are attempted, and they are the first
\* max_scenes tokens of scene_tokens in order.
C15_MaxScenesBoundsAttempts ==
    (pc = "batch_loop" /\ frame.max_scenes # NoneValue) =>
        /\ Len(frame.attempts) <= frame.max_scenes.v
        /\ \A k \in DOMAIN frame.attempts :
              frame.attempts[k].token = frame.given[k]

UnbatchedDone ==
    /\ pc = "app_returned"
    /\ outcome.op \in {"predict_single_scene", "create_trajectory_gif"}

\* an application object was returned to the caller
AppReturned == pc \notin {"app_new", "app_failed"}

\* the engine of a returned application holds a loaded model
EngineLoaded ==
    /\ inference_engine # NoneValue
    /\ inference_engine.agent # NoneValue
    /\ inference_engine.model_type \in SupportedModelTypes
    /\ Truthy(inference_engine.checkpoint_path)
          => inference_engine.agent.weights = "checkpoint"
    /\ get_model_info(inference_engine).status = "loaded"

LoadedOnce ==
    /\ pc = "app_new" => (load_model_calls = 0 /\ ~predicted)
    /\ pc = "app_failed" => (load_model_calls <= 1 /\ ~predicted)
    /\ AppReturned => load_model_calls = 1
    /\ predicted => (AppReturned /\ load_model_calls = 1)

\* what C9 says of a step: once constructed, the engine's agent, model type,
\* checkpoint path and device stay as they are and load_model is not called
EngineReadOnly ==
    AppReturned =>
        /\ load_model_calls' = load_model_calls
        /\ inference_engine'.agent = inference_engine.agent
        /\ inference_engine'.model_type = inference_engine.model_type
        /\ inference_engine'.checkpoint_path = inference_engine.checkpoint_path
        /\ inference_engine'.device = inference_engine.device

\* C9: over any sequence of the six operations load_model is invoked exactly
\* once, in the constructor and before any predict_trajectory call, and no
\* operation reassigns the engine's agent, model_type, checkpoint_path or
\* device.
C9_LoadedOnceReadOnly == []LoadedOnce /\ [][EngineReadOnly]_vars

\* a demo made two predictions and the model was still loaded once
C9_Witness ==
    /\ pc = "app_returned"
    /\ outcome.op = "create_demo_visualization"
    /\ outcome.status = "returned"
    /\ Len(outcome.value.results) >= 2
    /\ predicted
    /\ load_model_calls = 1

GifDone ==
    /\ pc = "app_returned"
    /\ frame.op \in {"create_trajectory_gif", "create_sliding_window_gif"}
    /\ "failure" \in DOMAIN frame

\* C12: the GIF written by a GIF operation holds exactly the number of frames
\* the operation reports, one per entry of time_windows
\* (create_gif_visualization) or of frame_predictions
\* (create_sliding_window_visualization), for every such list, the lists of
\* length 0 and 1 included: when nothing in the environment fails, the
\* operation returns and the frames written are as many as total_frames.
C12_GifHoldsReportedFrames ==
    (GifDone /\ frame.failure = "none") =>
        /\ outcome.status = "returned"
        /\ outcome.value.frames = outcome.value.total_frames

AppInfoDone == pc = "app_returned" /\ frame.op = "get_app_info"

\* the dictionary get_app_info returns has the four top-level keys, the
\* status "ready", the alias equal to the count, and no available scenes
\* without a scene loader
AppInfoShape ==
    (AppInfoDone /\ outcome.status = "returned") =>
        /\ DOMAIN outcome.value = {"model", "data", "config", "status"}
        /\ outcome.value.status = "ready"
        /\ outcome.value.data.num_scenes = outcome.value.data.total_scenes
        /\ (data_manager.scene_loader = NoneValue
                => outcome.value.data.available_scenes = {})

\* a step of get_app_info leaves the application object as it was
AppInfoReadOnly ==
    (pc = "app_ready" /\ pc' = "app_returned" /\ frame'.op = "get_app_info") =>
        UNCHANGED <<config, inference_engine, data_manager, visualizer,
                    load_model_calls, predicted>>

\* C13: get_app_info returns a dictionary with exactly the top-level keys
\* model, data, config and status, with status "ready"; data.num_scenes
\* always equals data.total_scenes; data.available_scenes is empty when the
\* data manager has no scene loader; and the call changes no application
\* state.
C13_AppInfoShapeReadOnly == []AppInfoShape /\ [][AppInfoReadOnly]_vars

\* get_app_info has returned for an application without a scene loader whose
\* statistics count two scenes
C13_Witness ==
    /\ AppInfoDone
    /\ outcome.status = "returned"
    /\ data_manager.scene_loader = NoneValue
    /\ outcome.value.data.total_scenes = 2
    /\ outcome.value.data.available_scenes = {}

\* C14: a constructed TrajectoryPredictionApp exposes an initialize()
\* operation and an _initialized flag (calling initialize() succeeds and
\* returns a dictionary with the keys model, data, config and status): a
\* lookup of either name on a constructed application succeeds.
C14_InitializeExposed ==
    (pc = "app_returned" /\ frame.op = "getattr"
        /\ frame.name \in {"initialize", "_initialized"}) =>
        outcome.status = "returned"

\* C17: history_fade_steps is the number of historical frames kept: in
\* every sliding-window frame at most history_fade_steps historical
\* predictions are drawn, they are the most recent ones, and this holds for
\* every history_fade_steps >= 0 (0 draws none) without error.
C17_HistoryKeptBounded ==
    (GifDone /\ frame.op = "create_sliding_window_gif" /\ frame.failure = "none"
        /\ ~frame.front_camera /\ frame.frame_predictions > 0) =>
        /\ outcome.status = "returned"
        /\ \A k \in DOMAIN outcome.value.history :
              LET drawn == outcome.value.history[k]
                  earlier == SubSeq(outcome.value.frame_times, 1, k - 1)
              IN /\ Len(drawn) <= outcome.value.history_fade_steps
                 /\ [i \in DOMAIN drawn |-> drawn[i].time]
                       = SubSeq(earlier, Len(earlier) - Len(drawn) + 1, Len(earlier))

\* the samples of every synchronized source end at or before the horizon
WithinHorizon(synchronized_trajectories, horizon) ==
    \A n \in DOMAIN synchronized_trajectories :
        \A i \in DOMAIN synchronized_trajectories[n].timestamps :
            synchronized_trajectories[n].timestamps[i] <= horizon

\* C21: every time window that is rendered lies inside the horizon requested
\* from the synchronizer: predict_single_scene synchronizes with time_horizon
\* = time_window[1] + 1.0, so the window ends before the horizon, and
\* create_trajectory_gif synchronizes with time_horizon = total_duration and
\* renders only windows that end at or before total_duration; both use
\* dt = 0.1.
C21_WindowsInsideHorizon ==
    (pc = "app_returned" /\ outcome.status = "returned") =>
        /\ outcome.op = "predict_single_scene" =>
              /\ outcome.value.sync_request.time_horizon
                    = outcome.value.time_window[2] + TicksPerSecond
              /\ outcome.value.time_window[2] < outcome.value.sync_request.time_horizon
              /\ 10 * outcome.value.sync_request.dt = TicksPerSecond
              /\ WithinHorizon(outcome.value.synchronized,
                               outcome.value.sync_request.time_horizon)
        /\ outcome.op = "create_trajectory_gif" =>
              /\ outcome.value.sync_request.time_horizon = outcome.value.total_duration
              /\ 10 * outcome.value.sync_request.dt = TicksPerSecond
              /\ \A k \in DOMAIN outcome.value.time_windows :
                    /\ outcome.value.time_windows[k][2] <= outcome.value.total_duration
                    /\ outcome.value.time_windows[k][2]
                          <= outcome.value.sync_request.time_horizon
              /\ WithinHorizon(outcome.value.synchronized,
                               outcome.value.sync_request.time_horizon)

\* predict_single_scene has returned for the window from 0.5 s to 1 s, with
\* a source synchronized up to the horizon of 2 s
C21_Witness ==
    /\ pc = "app_returned"
    /\ outcome.status = "returned"
    /\ outcome.op = "predict_single_scene"
    /\ outcome.value.time_window = <<5, 10>>
    /\ outcome.value.sync_request.time_horizon = 20
    /\ outcome.value.synchronized # NoTrajectories

SlidingLoop == pc = "sliding_loop"

SlidingDone ==
    /\ pc = "app_returned"
    /\ outcome.op = "create_sliding_window_gif"
    /\ outcome.status = "returned"

\* the lists of the loop have one entry per kept sampling time, in the order
\* of the sampling times
KeptInStep ==
    SlidingLoop =>
        /\ Len(frame.frame_predictions) = Len(frame.frame_metadata)
        /\ Len(frame.frame_predictions) <= frame.i - 1
        /\ frame.i - 1 <= Len(frame.sampling_times)
        /\ \A k \in DOMAIN frame.frame_predictions :
              /\ frame.frame_metadata[k].frame_index + 1 \in 1..(frame.i - 1)
              /\ frame.frame_predictions[k].time
                    = frame.sampling_times[frame.frame_metadata[k].frame_index + 1]
              /\ frame.frame_metadata[k].sample_time = frame.frame_predictions[k].time
              /\ k > 1 => frame.frame_predictions[k - 1].time
                             < frame.frame_predictions[k].time

\* the result counts the kept frames and lists every sampling time from 0 to
\* the total duration; it has no list of failures
AllTimesReported ==
    SlidingDone =>
        /\ outcome.value.total_frames = Len(outcome.value.frame_times)
        /\ outcome.value.total_frames <= Len(outcome.value.actual_sampling_times)
        /\ \A k \in DOMAIN outcome.value.frame_times :
              /\ \E j \in DOMAIN outcome.value.actual_sampling_times :
                    outcome.value.actual_sampling_times[j] = outcome.value.frame_times[k]
              /\ k > 1 => outcome.value.frame_times[k - 1] < outcome.value.frame_times[k]
        /\ \A t \in 0..outcome.value.total_duration :
              (t * outcome.value.sampling_rate) % TicksPerSecond = 0
                  => \E j \in DOMAIN outcome.value.actual_sampling_times :
                        outcome.value.actual_sampling_times[j] = t
        /\ DOMAIN outcome.value \cap {"failed_frames", "skipped", "errors"} = {}

\* a pass of the loop goes on to the next sampling time, whether it keeps
\* the current one or passes over it
LoopContinues ==
    (SlidingLoop /\ SlidingLoop') =>
        /\ frame'.i = frame.i + 1
        /\ frame'.sampling_times = frame.sampling_times
        /\ \/ /\ frame'.frame_predictions = frame.frame_predictions
              /\ frame'.frame_metadata = frame.frame_metadata
           \/ /\ Len(frame'.frame_predictions) = Len(frame.frame_predictions) + 1
              /\ Len(frame'.frame_metadata) = Len(frame.frame_metadata) + 1

\* C24: in create_sliding_window_gif a sampling time whose frame data is
\* unavailable or whose prediction raises is skipped and the loop continues
\* with the next sampling time; frame_predictions and frame_metadata always
\* have equal length and are in strictly increasing sample-time order;
\* total_frames = len(frame_predictions) <= len(actual_sampling_times), and
\* actual_sampling_times lists every generated sampling time including the
\* skipped ones (skipped frames are not recorded in any failure list).
C24_SkippedFramesLeaveNoTrace ==
    /\ [](KeptInStep /\ AllTimesReported)
    /\ [][LoopContinues]_vars

\* the call has returned with the sampling times 0, 0.5 and 1 s reported,
\* of which the first was skipped and the last two gave frames
C24_Witness ==
    /\ SlidingDone
    /\ outcome.value.actual_sampling_times = <<0, 5, 10>>
    /\ outcome.value.frame_times = <<5, 10>>
    /\ outcome.value.total_frames = 2

\* create_sliding_window_gif is over, after its loop
SlidingRendered ==
    /\ pc = "app_returned"
    /\ frame.op = "create_sliding_window_gif"
    /\ "history_passed" \in DOMAIN frame

\* C25: in create_sliding_window_visualization the history passed when
\* rendering frame k is exactly the predictions of frames 0..k-1 in order,
\* never the current or a later frame, when show_history is true, and is
\* empty for every frame when show_history is false; rendering a frame does
\* not modify frame_predictions. (Frames are counted from 1 here: frame k of
\* the code is frame k + 1.)
C25_HistoryIsEarlierFrames ==
    SlidingRendered =>
        /\ \A k \in DOMAIN frame.history_passed :
              IF frame.show_history
              THEN /\ Len(frame.history_passed[k]) = k - 1
                   /\ \A j \in 1..(k - 1) :
                         frame.history_passed[k][j] = frame.predictions_before[j]
              ELSE frame.history_passed[k] = <<>>
        /\ frame.predictions_after = frame.predictions_before

\* three frames were rendered with history and the call has returned; the
\* third was given the first two predictions
C25_Witness ==
    /\ SlidingRendered
    /\ outcome.status = "returned"
    /\ frame.show_history
    /\ Len(frame.history_passed) = 3
    /\ Len(frame.history_passed[3]) = 2
    /\ frame.history_passed[3][2].time = 5

\* three frames were rendered without history
NoHistoryPassed ==
    /\ SlidingRendered
    /\ outcome.status = "returned"
    /\ ~frame.show_history
    /\ Len(frame.history_passed) = 3

\* the scene has a ground-truth and a PDM-Closed reference and the sliding
\* window animation has been written
ReferencesSupplied ==
    /\ SlidingDone
    /\ DOMAIN frame.reference_trajectories = {"ground_truth", "pdm_closed"}
    /\ outcome.value.frames > 0

\* C26: the sliding-window renderer draws the ground-truth and PDM-Closed
\* reference trajectories whenever get_all_trajectories supplies them: the
\* BEV view and the trajectory comparison view look the references up under
\* the keys under which the application receives them and uses them for
\* metrics and styles.
C26_ReferencesDrawn ==
    SlidingDone =>
        /\ "ground_truth" \in DOMAIN frame.reference_trajectories
              => /\ "GT" \in outcome.value.references.bev
                 /\ "GT" \in outcome.value.references.comparison
        /\ "pdm_closed" \in DOMAIN frame.reference_trajectories
              => /\ "PDM-Closed" \in outcome.value.references.bev
                 /\ "PDM-Closed" \in outcome.value.references.comparison

\* whatever references the scene has, no view of the sliding window draws
\* one
NoReferenceDrawn ==
    SlidingDone =>
        /\ outcome.value.references.bev = {}
        /\ outcome.value.references.comparison = {}

-----------------------------------------------------------------------------
(* Properties of the configuration *)

AppReady == pc = "app_ready"

\* out is the token sequence tokens with every reference to a defined
\* environment variable replaced by the variable's value
IsExpandedString(out, tokens) ==
    /\ Len(out) = Len(tokens)
    /\ \A i \in DOMAIN tokens :
          IF "var" \in DOMAIN tokens[i] /\ tokens[i].var \in DOMAIN environ
          THEN out[i] = Lit(environ[tokens[i].var])
          ELSE out[i] = tokens[i]

\* out is obj with every string value, at any depth, environment-expanded,
\* and the keys, the other scalars and the nesting left as they are
RECURSIVE IsExpansionOf(_, _)
IsExpansionOf(out, obj) ==
    /\ out.kind = obj.kind
    /\ CASE obj.kind = "dict" ->
              /\ out.keys = obj.keys
              /\ \A i \in DOMAIN obj.vals : IsExpansionOf(out.vals[i], obj.vals[i])
         [] obj.kind = "list" ->
              /\ Len(out.items) = Len(obj.items)
              /\ \A i \in DOMAIN obj.items : IsExpansionOf(out.items[i], obj.items[i])
         [] obj.kind = "str" -> IsExpandedString(out.s, obj.s)
         [] OTHER -> out = obj

\* C10 as stated: the configuration the app uses is the given one with every
\* string value environment-expanded, whatever way it was given.
C10_Original_ConfigAlwaysExpanded ==
    AppReady => IsExpansionOf(config, config_arg.document)

\* C10 (amended): a configuration loaded from a file path has every string
\* value at any nesting depth environment-expanded, with keys, non-string
\* scalars and nesting unchanged; a configuration given as a dictionary is
\* used as it is given, unexpanded.
C10_LoadedConfigExpanded ==
    AppReady =>
        IF config_arg.is_path
        THEN IsExpansionOf(config, config_arg.document)
        ELSE config = config_arg.document

\* a loaded configuration in which a string nested in a list was expanded
C10_Witness ==
    /\ AppReady
    /\ config_arg.is_path
    /\ HasKey(config, "visualization")
    /\ Item(Item(config, "visualization"), "save_formats").items[2]
           = Str(<<Lit("/exp"), Lit(".gif")>>)
    /\ Item(Item(config_arg.document, "visualization"), "save_formats").items[2]
           = Str(<<Var("NAVSIM_EXP_ROOT"), Lit(".gif")>>)

-----------------------------------------------------------------------------
(* Properties of the time lines *)

SamplingDone ==
    pc = "timeline_done" /\ frame.op = "create_sliding_window_gif"

\* C11: create_sliding_window_gif reports a total_frames of
\* int(total_duration * sampling_rate) + 1, one frame per sampling time from
\* 0 up to and including total_duration, for every positive sampling rate and
\* every non-negative duration.
C11_FrameCountFromRateAndDuration ==
    SamplingDone =>
        outcome.value.total_frames
            = (frame.total_duration * frame.sampling_rate) \div TicksPerSecond + 1

WindowsDone ==
    pc = "timeline_done" /\ frame.op = "create_trajectory_gif"

\* C20: create_trajectory_gif generates the time windows
\* (k * step_size, k * step_size + window_size): every window ends at or
\* before total_duration, the windows are in strictly increasing start
\* order, the list contains every such window, floor((total_duration -
\* window_size) / step_size) + 1 of them when window_size <= total_duration
\* and none otherwise, and total_frames is the number of windows.
C20_AllWindowsGenerated ==
    WindowsDone =>
        LET time_windows == outcome.value.time_windows
        IN /\ Len(time_windows)
                 = IF frame.window_size <= frame.total_duration
                   THEN (frame.total_duration - frame.window_size)
                            \div frame.step_size + 1
                   ELSE 0
           /\ outcome.value.total_frames = Len(time_windows)
           /\ \A k \in DOMAIN time_windows :
                 /\ FloatLe(time_windows[k][2], Seconds(frame.total_duration))
                 /\ k > 1 => FloatLt(time_windows[k - 1][1], time_windows[k][1])

-----------------------------------------------------------------------------
(* Properties of the timeline loops *)

LoopDone == pc = "loop_done"

\* the window loop with a positive step, and the sampling loop with a
\* positive finite rate, are left
FiniteLoopsTerminate ==
    /\ (pc = "window_loop" /\ Positive(frame.step_size)) ~> LoopDone
    /\ (pc = "sampling_loop" /\ frame.sampling_rate.kind = "finite") ~> LoopDone

\* the window loop whose step is zero or negative and whose window fits into
\* the total duration is not left
NonPositiveStepNeverEnds ==
    (/\ frame.op = "create_trajectory_gif"
     /\ ~Positive(frame.step_size)
     /\ SignedLe(frame.window_size, frame.total_duration)) => ~LoopDone

\* a pass of the sampling loop with an interval of 0.0 leaves current_time
\* where it was, with the loop condition still true: the pass repeats
ZeroIntervalRepeats ==
    [][(pc = "sampling_loop" /\ frame.sampling_interval = SignedZero)
          => /\ pc' = "sampling_loop"
             /\ frame'.current_time = frame.current_time
             /\ SignedLe(frame'.current_time, frame'.total_duration)]_vars

\* the sampling loop was entered with a rate of infinity
InfiniteRateEntered ==
    /\ pc = "sampling_loop"
    /\ frame.sampling_rate = Infinity
    /\ frame.sampling_times = <<>>

-----------------------------------------------------------------------------
(* Properties of the frame lookup *)

FrameLookupDone == pc = "frame_done"

\* something inside the try block raises for this request
LookupRaises ==
    \/ frame.fails_at = "frames"
    \/ frame.fails_at \in {"timestamp", "get_agent_input"} /\ frame.frames # <<>>

\* C23: _get_frame_at_time returns the frame whose timestamp (microseconds
\* / 1e6) is closest to target_time, the earliest frame in scene.frames order
\* on a tie; time_diff in the result equals |actual_time - target_time|; it
\* returns None when the scene has no frames; and it never raises: any
\* exception while scanning frames or obtaining the agent input is turned
\* into a None result.
C23_ClosestFrameOrNone ==
    FrameLookupDone =>
        /\ outcome.status = "returned"
        /\ (frame.frames = <<>> \/ LookupRaises) <=> outcome.value = NoneValue
        /\ outcome.value # NoneValue =>
              LET best == outcome.value.frame
              IN /\ best \in DOMAIN frame.frames
                 /\ \A k \in DOMAIN frame.frames :
                       /\ FloatLe(time_diff(frame.frames[best], frame.target_time),
                                  time_diff(frame.frames[k], frame.target_time))
                       /\ k < best =>
                             FloatLt(time_diff(frame.frames[best], frame.target_time),
                                     time_diff(frame.frames[k], frame.target_time))
                 /\ outcome.value.actual_time = frame_time(frame.frames[best])
                 /\ outcome.value.time_diff
                       = FloatAbsDiff(outcome.value.actual_time, frame.target_time)

\* of the frames at 1 s, 0 s and 0.4 s the lookup has returned the third,
\* which is the closest to the target of 0.5 s
C23_Witness ==
    /\ FrameLookupDone
    /\ frame.frames = <<1000000, 0, 400000>>
    /\ frame.target_time = Seconds(5)
    /\ outcome.value # NoneValue
    /\ outcome.value.frame = 3
    /\ outcome.value.time_diff = FloatSub(Seconds(5), Seconds(4))

\* the frames at 1 s and at 0 s are equally far from the target of 0.5 s,
\* and the lookup has returned the first of them
FirstOfTieReturned ==
    /\ FrameLookupDone
    /\ frame.frames = <<1000000, 0>>
    /\ frame.target_time = Seconds(5)
    /\ outcome.value # NoneValue
    /\ outcome.value.frame = 1

\* the agent input of the closest frame cannot be read and the lookup has
\* returned None
NoneAfterException ==
    /\ FrameLookupDone
    /\ frame.frames # <<>>
    /\ frame.fails_at = "get_agent_input"
    /\ outcome = Returned("_get_frame_at_time", NoneValue)

-----------------------------------------------------------------------------
(* Properties of the inference engine *)

EngineCallDone == pc = "engine_returned"

\* C16: while the engine has no model loaded, predict_trajectory,
\* get_sensor_config and get_feature_builders each raise
\* ValueError('Model not loaded. Call load_model() first.') and leave the
\* engine unchanged, and get_model_info returns {"status": "not_loaded"};
\* after a successful load_model, get_model_info reports "loaded".
C16_NotLoadedGuards ==
    EngineCallDone =>
        /\ (frame.engine.agent = NoneValue
               /\ frame.op \in {"predict_trajectory", "get_sensor_config",
                                "get_feature_builders"})
              => /\ outcome = Raised(frame.op, NotLoaded)
                 /\ inference_engine = frame.engine
        /\ (frame.engine.agent = NoneValue /\ frame.op = "get_model_info")
              => /\ outcome = Returned("get_model_info", [status |-> "not_loaded"])
                 /\ inference_engine = frame.engine
        /\ (frame.op = "load_model" /\ outcome.status = "returned")
              => get_model_info(inference_engine).status = "loaded"

\* get_sensor_config has raised the ValueError on an engine that a failed
\* load_model left without a model
C16_Witness ==
    /\ EngineCallDone
    /\ frame.op = "get_sensor_config"
    /\ frame.engine.agent = NoneValue
    /\ load_model_calls = 1
    /\ outcome = Raised("get_sensor_config", NotLoaded)

-----------------------------------------------------------------------------
(* Properties of the renderers' opacity *)

RenderDone == pc = "render_done"

\* every sample drawn lies inside the time window
DrawnInsideWindow(times) ==
    \A i \in DOMAIN times :
        frame.time_window[1] <= times[i] /\ times[i] <= frame.time_window[2]

NonIncreasing(alphas) ==
    \A i \in DOMAIN alphas :
        i + 1 \in DOMAIN alphas => RatLe(alphas[i + 1], alphas[i])

\* C18: trajectories are rendered with time-decayed opacity.  In the BEV
\* view the alpha of every drawn segment is style_alpha * (1 - 0.3 *
\* progress) with progress in [0, 1], so it does not increase with time and
\* stays within [0.7 * style_alpha, style_alpha]; in the camera projection
\* alpha does not increase with time and is never below 0.3; and only
\* samples with time_start <= t <= time_end are drawn.
C18_TimeDecayedOpacity ==
    RenderDone =>
        \A n \in DOMAIN outcome.value :
            LET drawn == outcome.value[n]
                style_alpha == Rat(trajectory_styles[n].alpha, 10)
            IN /\ DrawnInsideWindow(drawn.times)
               /\ NonIncreasing(drawn.alphas)
               /\ outcome.op = "_render_bev_trajectories" =>
                     \A i \in DOMAIN drawn.alphas :
                        LET progress == time_progress(drawn.times[i], frame.time_window)
                        IN /\ progress.den > 0
                           /\ 0 <= progress.num /\ progress.num <= progress.den
                           /\ RatEq(drawn.alphas[i],
                                    Rat(style_alpha.num * (10 * progress.den - 3 * progress.num),
                                        style_alpha.den * 10 * progress.den))
                           /\ RatLe(Rat(7 * style_alpha.num, 10 * style_alpha.den),
                                    drawn.alphas[i])
                           /\ RatLe(drawn.alphas[i], style_alpha)
               /\ outcome.op = "_add_trajectory_projections_to_image" =>
                     \A i \in DOMAIN drawn.alphas :
                        /\ drawn.alphas[i].den > 0
                        /\ RatLe(Rat(3, 10), drawn.alphas[i])

\* a BEV line of three segments has been drawn whose alpha strictly falls
C18_Witness ==
    /\ RenderDone
    /\ outcome.op = "_render_bev_trajectories"
    /\ \E n \in DOMAIN outcome.value :
          /\ Len(outcome.value[n].alphas) = 3
          /\ ~RatLe(outcome.value[n].alphas[1], outcome.value[n].alphas[3])

-----------------------------------------------------------------------------
(* Properties of the gradient colours *)

GradientDone == pc = "gradient_done"

\* the colour has the components r, g, b
IsColor(color, r, g, b) ==
    /\ RatEq(color[1], Rat(r, 1))
    /\ RatEq(color[2], Rat(g, 1))
    /\ RatEq(color[3], Rat(b, 1))

\* C19: _generate_trajectory_gradient_colors(n) returns exactly n colours
\* for every n >= 0; every component of every colour lies in [0, 1]; for
\* n >= 2 the first colour is red (1, 0, 0) and the last is (0, 1, 1); for
\* n = 1 the single colour is red; and the colour-segment index never
\* leaves the range of the colour stops.
C19_GradientColors ==
    GradientDone =>
        LET n == frame.n_points
            colors == outcome.value
        IN /\ Len(colors) = n
           /\ \A k \in 1..n : \A c \in 1..3 :
                 /\ colors[k][c].den > 0
                 /\ RatLe(Rat(0, 1), colors[k][c])
                 /\ RatLe(colors[k][c], Rat(1, 1))
           /\ n >= 1 => IsColor(colors[1], 1, 0, 0)
           /\ n >= 2 => IsColor(colors[n], 0, 1, 1)
           /\ \A i \in 0..(n - 1) :
                 /\ segment_idx(gradient_t(i, n)) >= 0
                 /\ segment_idx(gradient_t(i, n)) + 1 <= Len(color_stops) - 1

\* twenty colours have been made, from red to (0, 1, 1) through a mixed one
C19_Witness ==
    /\ GradientDone
    /\ frame.n_points = 20
    /\ Len(outcome.value) = 20
    /\ IsColor(outcome.value[20], 0, 1, 1)
    /\ ~IsColor(outcome.value[2], 1, 0, 0)

====
